---------------------------- MODULE Spec2Model ----------------------------
(***************************************************************************)
(* RiverWriter: progressive backfill of hourly tick files into 1-minute    *)
(* OHLCV bars.  The module models                                           *)
(*   - fetcher.fetch_hour      (specification SpecFetch),                   *)
(*   - catalog.Catalog         (specification SpecCatalog),                 *)
(*   - parser / aggregator / writer and the atomic file writes             *)
(*                             (specification SpecStore),                   *)
(*   - runner.run              (specification Spec).                        *)
(* Time is counted from config.TARGET_START (2021-01-01T00:00Z): hours for *)
(* slots, minutes for bar timestamps, milliseconds for ticks.  Prices are  *)
(* kept as integers in points (price * point_value).                       *)
(***************************************************************************)
EXTENDS Integers, Sequences, FiniteSets, TLC

(* ------------------------------ config.py ------------------------------ *)
MAX_HOURS_PER_RUN == 1500
MAX_RETRIES == 3
RETRY_DELAY_SECONDS == 5
RATE_LIMIT_BACKOFF_SECONDS == 60
TARGET_START_YEAR == 2021
TICK_STRUCT_SIZE == 20
WRITE_EVERY == 50

\* list(config.PAIRS.keys())
PAIRS == <<"EURUSD", "GBPUSD", "USDJPY", "USDCAD", "AUDUSD", "USDCHF">>
\* config.PAIRS[pair]["point_value"]
PointValue(pair) == IF pair = "USDJPY" THEN 1000 ELSE 100000
\* the `pairs` arguments of run() that are explored: one pair, two pairs
PairArgs == {<<"EURUSD">>, <<"EURUSD", "GBPUSD">>}
PairSet == {"EURUSD", "GBPUSD"}

None == "None"

(* -------------------------------- state -------------------------------- *)
VARIABLES
    \* the clocks
    now,            \* datetime.now(timezone.utc) floored to the hour, as an hour count
    wall,           \* pd.Timestamp.now(): a clock that advances with every reading
    \* the files
    raw,            \* raw archive: raw_path(slot) -> body name, Torn or Absent
    parquet,        \* the dataset files: DatasetKeys -> NoFile, TornFile or File(rows)
    ptmp,           \* the mkstemp() file of the write in progress
    d_catalog,      \* the file at CATALOG_PATH
    d_catalog_tmp,  \* the file at CATALOG_PATH.with_suffix(".tmp")
    \* fetch_hour
    f_slot,         \* its arguments <<pair, hour count>>
    f_pc,           \* "request": about to call session.get; "done": returned; "raised": an exception left it
    f_attempt,      \* the loop variable `attempt`
    f_status,       \* returned status
    f_data,         \* returned data
    f_sleeps,       \* the time.sleep() calls made so far, in order
    f_requests,     \* number of session.get calls made
    f_last,         \* what the last session.get produced
    f_n429,         \* number of 429 responses seen
    f_nTransient,   \* number of RequestException / HTTP error statuses seen
    \* Catalog
    df,             \* Catalog.df: the rows, in order
    index,          \* Catalog._index: set of (pair, year, month, day, hour)
    c_call,         \* the last batch request <<kind, pair, n>>
    c_batch,        \* what it returned: a list of (year, month, day, hour)
    c_since,        \* the keys passed to update since that request
    \* write_bars and Catalog.save
    w_pc,           \* "idle", or where write_bars / Catalog.save stands
    w_pair,         \* write_bars: pair
    w_in,           \* write_bars: the frame passed as new_bars, and where it came from
    w_new,          \* write_bars: new_bars once stamped
    w_years,        \* write_bars: the year groups not yet written
    w_combined,     \* _atomic_write_parquet: df
    w_before,       \* the final file as it was when the atomic write in progress began
    w_exc,          \* how the last call ended: "ok" or the exception it raised
    w_done,         \* calls of write_bars and save that have ended
    h_last,         \* the write_bars call that ended last: [pair, in, exc, out]
    \* runner.run
    r_pc,           \* where run() stands; "idle" before it is called
    r_args,         \* its arguments [pairs, max_hours, retry_errors]
    r_order,        \* the order in which list(active_pairs) lists the pairs
    r_batches,      \* pair_batches
    r_pos,          \* pair_iterators: pair -> slots already taken from its batch
    r_buffers,      \* pair_buffers: pair -> list of frames
    r_active,       \* active_pairs
    r_round,        \* the pairs the for loop has still to visit in this round
    r_fsw,          \* fetches_since_write
    r_fetched,      \* total_fetched
    r_sleeps,       \* time.sleep(config.REQUEST_DELAY_SECONDS) calls made
    r_cur,          \* the pair whose periodic flush is running
    r_final,        \* final flush: pairs already flushed
    h_bars,         \* every bar aggregated so far: [pair, key, timestamp]
    r_last,         \* what the last call of fetch_hour did: [status, data]
    \* a function called on its own
    q_pc,           \* "call": about to be called; "done": it has returned; "idle"
    q_in,           \* its argument
    q_out           \* what it returned

clockVars == <<now, wall>>
diskVars == <<parquet, ptmp, d_catalog, d_catalog_tmp>>
fetchVars == <<f_slot, f_pc, f_attempt, f_status, f_data, f_sleeps, f_requests,
               f_last, f_n429, f_nTransient>>
catVars == <<df, index>>
catCallVars == <<c_call, c_batch, c_since>>
writerVars == <<w_pc, w_pair, w_in, w_new, w_years, w_combined, w_before, w_exc,
                w_done, h_last>>

runVars == <<r_pc, r_args, r_order, r_batches, r_pos, r_buffers, r_active, r_round,
             r_fsw, r_fetched, r_sleeps, r_cur, r_final, h_bars, r_last>>

pureVars == <<q_pc, q_in, q_out>>

vars == <<clockVars, raw, diskVars, fetchVars, catVars, catCallVars, writerVars, runVars,
          pureVars>>

\* what fetch_hour, the Catalog's methods and the writer leave alone
exceptFetch == <<clockVars, diskVars, catVars, catCallVars, writerVars, runVars, pureVars>>
exceptCatalog == <<raw, diskVars, fetchVars, writerVars, runVars, pureVars>>
exceptWriter == <<now, raw, fetchVars, catVars, catCallVars, pureVars>>
exceptPure == <<clockVars, raw, diskVars, fetchVars, catVars, catCallVars, writerVars, runVars>>

(* ------------------------------ calendar ------------------------------- *)
\* datetime arithmetic on an hour count t since 2021-01-01T00:00Z
IsLeap(y) == (y % 4 = 0 /\ y % 100 # 0) \/ y % 400 = 0
DaysInYear(y) == IF IsLeap(y) THEN 366 ELSE 365
DaysInMonth(y, m) ==
    IF m = 2 THEN (IF IsLeap(y) THEN 29 ELSE 28)
    ELSE IF m \in {4, 6, 9, 11} THEN 30 ELSE 31

RECURSIVE YearOfDay(_, _)
\* <<year, day of that year (0-based)>> of day count d, counting from 1 Jan of y
YearOfDay(y, d) ==
    IF d < DaysInYear(y) THEN <<y, d>> ELSE YearOfDay(y + 1, d - DaysInYear(y))

RECURSIVE MonthOfDay(_, _, _)
\* <<month, day of month (1-based)>> of the 0-based day d of year y, from month m
MonthOfDay(y, m, d) ==
    IF d < DaysInMonth(y, m) THEN <<m, d + 1>>
    ELSE MonthOfDay(y, m + 1, d - DaysInMonth(y, m))

\* (current.year, current.month, current.day, current.hour) of hour count t
SlotOf(t) ==
    LET yd == YearOfDay(TARGET_START_YEAR, t \div 24)
        md == MonthOfDay(yd[1], 1, yd[2])
    IN  <<yd[1], md[1], md[2], t % 24>>

\* dt.weekday(), Mon=0 .. Sun=6; 2021-01-01 is a Friday
Weekday(t) == (4 + (t \div 24)) % 7

\* timestamp.dt.year of a minute count ts since 2021-01-01T00:00Z
YearOfMinute(ts) == YearOfDay(TARGET_START_YEAR, ts \div 1440)[1]

\* a closure that starts after the 22:00 hour of Friday
is_closed_late(t) ==
    LET wd == Weekday(t)
        h  == t % 24
    IN  \/ wd = 5
        \/ (wd = 6 /\ h < 22)
        \/ (wd = 4 /\ h > 22)

\* catalog._is_weekend_closed(dt) for the datetime of hour count t
is_weekend_closed(t) ==
    LET wd == Weekday(t)
        h  == t % 24
    IN  \/ wd = 5
        \/ (wd = 6 /\ h < 22)
        \/ (wd = 4 /\ h >= 22)


(* ------------------------- payloads (.bi5 files) ----------------------- *)
\* One 20-byte record of a decompressed file, struct ">IIIff":
\* (ms offset into the hour, ask in points, bid in points, ask vol, bid vol)
Rec(ms, ask, bid, av, bv) ==
    [ts_ms |-> ms, ask_int |-> ask, bid_int |-> bid, ask_vol |-> av, bid_vol |-> bv]

\* The response bodies served, by name.  A body is corrupt (lzma.decompress
\* raises) or decompresses to whole records followed by Extra (< 20) bytes.
Payloads == {"scenario", "truncated", "short", "corrupt"}
\* resp.content of length 0
EmptyBody == "empty"
Bodies == Payloads \cup {EmptyBody}
Corrupt(body) == body = "corrupt"
\* the whole records of the decompressed stream
Records(body) ==
    CASE body = "scenario" ->
            \* 3 ticks in minute 10 (mids 1.1000, 1.1005, 1.0995), 1 in minute 11 (1.1010)
            << Rec(600000, 110001, 109999, 1, 1), Rec(601000, 110051, 110049, 1, 1),
               Rec(602000, 109951, 109949, 1, 1), Rec(660000, 110101, 110099, 2, 1) >>
      [] body = "truncated" -> << Rec(0, 120001, 119999, 1, 0) >>
      [] OTHER -> << >>
\* the bytes after the last whole record
Extra(body) ==
    CASE body = "truncated" -> 7
      [] body = "short" -> 5
      [] OTHER -> 0
\* len(decompressed)
DecompressedLen(body) == TICK_STRUCT_SIZE * Len(Records(body)) + Extra(body)

Absent == "absent"
\* a file that a failed write left behind (truncated, partly written)
Torn == "torn"


(* ------------------------------ fetcher.py ----------------------------- *)
\* a backoff that does not grow
BackoffFlat(attempt) == RETRY_DELAY_SECONDS
\* backoff = config.RETRY_DELAY_SECONDS * (2 ** (attempt - 1))
Backoff(attempt) == RETRY_DELAY_SECONDS * (2 ^ (attempt - 1))

\* a loop that repeats the attempt without counting it
NextAttemptAgain == UNCHANGED <<f_pc, f_status, f_data, f_attempt>>

\* the for loop moves to its next attempt, or is exhausted and falls through
\* to `return "error", None`
NextAttempt ==
    IF f_attempt < MAX_RETRIES
    THEN /\ f_attempt' = f_attempt + 1
         /\ UNCHANGED <<f_pc, f_status, f_data>>
    ELSE /\ f_pc' = "done"
         /\ f_status' = "error"
         /\ f_data' = None
         /\ UNCHANGED f_attempt

Request(kind) ==
    /\ f_pc = "request"
    /\ f_requests' = f_requests + 1
    /\ f_last' = kind

\* resp.status_code == 404
FetchNotFound ==
    /\ Request("404")
    /\ f_pc' = "done" /\ f_status' = "no_data" /\ f_data' = None
    /\ UNCHANGED <<raw, f_slot, f_attempt, f_sleeps, f_n429, f_nTransient>>
    /\ UNCHANGED exceptFetch

\* resp.status_code == 429: sleep, continue
FetchRateLimited ==
    /\ Request("429")
    /\ f_sleeps' = Append(f_sleeps, RATE_LIMIT_BACKOFF_SECONDS)
    /\ f_n429' = f_n429 + 1
    /\ NextAttempt
    /\ UNCHANGED <<raw, f_slot, f_nTransient>>
    /\ UNCHANGED exceptFetch

\* session.get raises RequestException, or raise_for_status() raises HTTPError
FetchTransient ==
    /\ \E kind \in {"exception", "http_error"} : Request(kind)
    /\ f_nTransient' = f_nTransient + 1
    /\ f_sleeps' = IF f_attempt < MAX_RETRIES
                   THEN Append(f_sleeps, Backoff(f_attempt)) ELSE f_sleeps
    /\ NextAttempt
    /\ UNCHANGED <<raw, f_slot, f_n429>>
    /\ UNCHANGED exceptFetch

\* an empty body that is archived before "no_data" is returned
FetchEmptyArchived ==
    /\ Request(EmptyBody)
    /\ raw' = [raw EXCEPT ![f_slot] = EmptyBody]
    /\ f_pc' = "done" /\ f_status' = "no_data" /\ f_data' = None
    /\ UNCHANGED <<f_slot, f_attempt, f_sleeps, f_n429, f_nTransient>>
    /\ UNCHANGED exceptFetch

\* 200 with len(resp.content) == 0
FetchEmpty ==
    /\ Request(EmptyBody)
    /\ f_pc' = "done" /\ f_status' = "no_data" /\ f_data' = None
    /\ UNCHANGED <<raw, f_slot, f_attempt, f_sleeps, f_n429, f_nTransient>>
    /\ UNCHANGED exceptFetch

\* 200 with data: mkdir, write_bytes, return "fetched", data
FetchStored ==
    /\ \E body \in Payloads :
        /\ Request(body)
        /\ raw' = [raw EXCEPT ![f_slot] = body]
        /\ f_data' = body
    /\ f_pc' = "done" /\ f_status' = "fetched"
    /\ UNCHANGED <<f_slot, f_attempt, f_sleeps, f_n429, f_nTransient>>
    /\ UNCHANGED exceptFetch

\* 200 with data, but dest.parent.mkdir raises OSError: not a RequestException,
\* so it leaves fetch_hour
FetchMkdirFails ==
    /\ \E body \in Payloads : Request(body)
    /\ f_pc' = "raised"
    /\ UNCHANGED <<raw, f_slot, f_attempt, f_status, f_data, f_sleeps, f_n429, f_nTransient>>
    /\ UNCHANGED exceptFetch

\* 200 with data, but dest.write_bytes raises OSError after the file was opened
FetchWriteFails ==
    /\ \E body \in Payloads : Request(body)
    /\ raw' = [raw EXCEPT ![f_slot] = Torn]
    /\ f_pc' = "raised"
    /\ UNCHANGED <<f_slot, f_attempt, f_status, f_data, f_sleeps, f_n429, f_nTransient>>
    /\ UNCHANGED exceptFetch

FetchHourStep ==
    \/ FetchNotFound
    \/ FetchRateLimited
    \/ FetchTransient
    \/ FetchEmpty
    \/ FetchStored
    \/ FetchMkdirFails
    \/ FetchWriteFails

\* hours whose raw file fetch_hour is asked for
FetchSlots == {<<"EURUSD", 0>>, <<"USDJPY", 25>>}

FetchInit ==
    /\ f_slot \in FetchSlots
    /\ raw \in [FetchSlots -> {Absent, "scenario"}]
    /\ f_pc = "request"
    /\ f_attempt = 1
    /\ f_status = None
    /\ f_data = None
    /\ f_sleeps = << >>
    /\ f_requests = 0
    /\ f_last = None
    /\ f_n429 = 0
    /\ f_nTransient = 0


(* ------------------------------ catalog.py ----------------------------- *)
Statuses == {"fetched", "no_data", "error"}


Key(pair, slot) == <<pair, slot[1], slot[2], slot[3], slot[4]>>
RowKey(r) == <<r.pair, r.year, r.month, r.day, r.hour>>
RowSlot(r) == <<r.year, r.month, r.day, r.hour>>

\* Catalog._rebuild_index
rebuild_index(d) == {RowKey(d[i]) : i \in DOMAIN d}

\* an index that is never consulted
has_entry_never(idx, key) == FALSE
\* Catalog.has_entry
has_entry(idx, key) == key \in idx

\* Catalog.get_status: the status of the first row with the key, else None
get_status(d, idx, key) ==
    IF ~has_entry(idx, key) THEN None
    ELSE LET rows == {i \in DOMAIN d : RowKey(d[i]) = key}
         IN  IF rows = {} THEN None
             ELSE d[CHOOSE i \in rows : \A j \in rows : i <= j].status

\* an update that stamps fetched_at on every row of the catalog
update_restamp(d, idx, key, status, at) ==
    LET d1 == IF key \in idx
              THEN [i \in DOMAIN d |->
                      IF RowKey(d[i]) = key THEN [d[i] EXCEPT !.status = status] ELSE d[i]]
              ELSE Append(d, [pair |-> key[1], year |-> key[2], month |-> key[3],
                              day |-> key[4], hour |-> key[5],
                              status |-> status, fetched_at |-> at])
    IN  [i \in DOMAIN d1 |-> [d1[i] EXCEPT !.fetched_at = at]]

\* an update that appends a row whether or not the key is indexed
update_append(d, idx, key, status, at) ==
    Append(d, [pair |-> key[1], year |-> key[2], month |-> key[3],
               day |-> key[4], hour |-> key[5],
               status |-> status, fetched_at |-> at])

\* Catalog.update, the rows: every row with the key gets status and fetched_at,
\* or a new row is appended
update_df(d, idx, key, status, at) ==
    IF key \in idx
    THEN [i \in DOMAIN d |->
            IF RowKey(d[i]) = key
            THEN [d[i] EXCEPT !.status = status, !.fetched_at = at]
            ELSE d[i]]
    ELSE Append(d, [pair |-> key[1], year |-> key[2], month |-> key[3],
                    day |-> key[4], hour |-> key[5],
                    status |-> status, fetched_at |-> at])

\* an update that leaves the index as it is
update_index_none(idx, key) == idx

\* Catalog.update, the index
update_index(idx, key) == idx \cup {key}

RECURSIVE next_batch_walk(_, _, _, _, _)
\* the while loop of get_next_batch: current >= target_start and len(batch) < n
next_batch_walk(idx, pair, n, current, batch) ==
    IF current >= 0 /\ Len(batch) < n
    THEN next_batch_walk(idx, pair, n, current - 1,
            IF ~is_weekend_closed(current) /\ ~has_entry(idx, Key(pair, SlotOf(current)))
            THEN Append(batch, SlotOf(current)) ELSE batch)
    ELSE batch

\* a batch query that does not skip the hours already in the catalog
get_next_batch_any(idx, pair, n, nowHour) ==
    next_batch_walk({}, pair, n, nowHour - 1, << >>)

\* Catalog.get_next_batch(pair, n) at clock reading nowHour
get_next_batch(idx, pair, n, nowHour) ==
    next_batch_walk(idx, pair, n, nowHour - 1, << >>)

\* tuple order of (year, month, day, hour)
SlotLess(a, b) ==
    \E k \in 1..4 : a[k] < b[k] /\ \A j \in 1..(k - 1) : a[j] = b[j]

RECURSIVE SortDesc(_)
\* the slots of a set, most recent first
SortDesc(S) ==
    IF S = {} THEN << >>
    ELSE LET m == CHOOSE x \in S : \A y \in S : y = x \/ SlotLess(y, x)
         IN  <<m>> \o SortDesc(S \ {m})

RECURSIVE Repeat(_, _)
Repeat(x, k) == IF k = 0 THEN << >> ELSE <<x>> \o Repeat(x, k - 1)

RECURSIVE Expand(_, _)
\* each slot of the list as many times as d has error rows of it
Expand(list, mult) ==
    IF list = << >> THEN << >>
    ELSE Repeat(Head(list), mult[Head(list)]) \o Expand(Tail(list), mult)

Min(a, b) == IF a < b THEN a ELSE b
Max(a, b) == IF a > b THEN a ELSE b
\* a head that keeps every row
head_all(seq, n) == seq
\* DataFrame.head(n)
Head_n(seq, n) == SubSeq(seq, 1, Min(Len(seq), Max(n, 0)))

\* Catalog.get_error_batch(pair, n): the error rows of the pair, sorted
\* descending by (year, month, day, hour), the first n
get_error_batch(d, pair, n) ==
    IF Len(d) = 0 THEN << >>
    ELSE LET rows  == {i \in DOMAIN d : d[i].pair = pair /\ d[i].status = "error"}
             slots == {RowSlot(d[i]) : i \in rows}
             mult  == [sl \in slots |-> Cardinality({i \in rows : RowSlot(d[i]) = sl})]
         IN  Head_n(Expand(SortDesc(slots), mult), n)



(* ------------------------- parser.py, aggregator.py -------------------- *)
\* A DataFrame is [cols: set of column names, rows: sequence of rows].  A row
\* has every field; a field whose column the frame lacks holds a placeholder.
AggCols == {"timestamp", "open", "high", "low", "close", "volume", "tick_count", "spread_avg"}
InCols == {"timestamp", "open", "high", "low", "close", "volume", "source"}
\* [f.name for f in RAW_BAR_SCHEMA]
RawCols == {"timestamp", "open", "high", "low", "close", "volume", "source",
            "knowledge_time", "bar_hash"}

Row(ts, o, h, l, c, v, src, n, sp) ==
    [timestamp |-> ts, open |-> o, high |-> h, low |-> l, close |-> c, volume |-> v,
     source |-> src, tick_count |-> n, spread_avg |-> sp,
     knowledge_time |-> 0, bar_hash |-> << >>]

\* a parser that returns the records last to first
parse_ticks_reversed(body, pair, t) ==
    LET recs == Records(body)
        n_ticks == DecompressedLen(body) \div TICK_STRUCT_SIZE
    IN  [i \in 1..n_ticks |->
            [timestamp |-> t * 3600000 + recs[n_ticks + 1 - i].ts_ms,
             ask |-> recs[n_ticks + 1 - i].ask_int, bid |-> recs[n_ticks + 1 - i].bid_int,
             mid |-> (recs[n_ticks + 1 - i].ask_int + recs[n_ticks + 1 - i].bid_int) \div 2,
             ask_volume |-> recs[n_ticks + 1 - i].ask_vol,
             bid_volume |-> recs[n_ticks + 1 - i].bid_vol]]

\* parse_ticks(raw_bytes, pair, y, m, d, h) for the hour count t, when
\* decompress() does not raise: one tick per whole record, in record order.
\* Timestamps in ms since the epoch; ask, bid, mid in points (ask_int and
\* bid_int of the bodies served have an even sum).
parse_ticks(body, pair, t) ==
    LET recs == Records(body)
        n_ticks == DecompressedLen(body) \div TICK_STRUCT_SIZE
    IN  [i \in 1..n_ticks |->
            [timestamp |-> t * 3600000 + recs[i].ts_ms,
             ask |-> recs[i].ask_int, bid |-> recs[i].bid_int,
             mid |-> (recs[i].ask_int + recs[i].bid_int) \div 2,
             ask_volume |-> recs[i].ask_vol, bid_volume |-> recs[i].bid_vol]]

RECURSIVE SeqSum(_)
SeqSum(q) == IF q = << >> THEN 0 ELSE Head(q) + SeqSum(Tail(q))
SetMax(S) == CHOOSE x \in S : \A y \in S : y <= x
SetMin(S) == CHOOSE x \in S : \A y \in S : x <= y

RECURSIVE SortAsc(_)
\* the numbers of a set in ascending order
SortAsc(S) == IF S = {} THEN << >> ELSE <<SetMin(S)>> \o SortAsc(S \ {SetMin(S)})

\* an aggregation that takes open from the last tick and close from the first
aggregate_ticks_reversed(ticks) ==
    LET minutes == {ticks[i].timestamp \div 60000 : i \in DOMAIN ticks}
        group(m) == SelectSeq(ticks, LAMBDA tk : tk.timestamp \div 60000 = m)
        mids(g) == {g[i].mid : i \in DOMAIN g}
        bar(m) ==
            LET g == group(m)
            IN  Row(m, g[Len(g)].mid, SetMax(mids(g)), SetMin(mids(g)), g[1].mid,
                    SeqSum([i \in DOMAIN g |-> g[i].ask_volume + g[i].bid_volume]),
                    "", Len(g),
                    SeqSum([i \in DOMAIN g |-> g[i].ask - g[i].bid]) \div Len(g))
        order == SortAsc(minutes)
    IN  [cols |-> AggCols, rows |-> [k \in DOMAIN order |-> bar(order[k])]]

\* aggregate_ticks(ticks): one bar per minute (timestamp in minutes), groups
\* in ascending order, ticks of a group in input order
aggregate_ticks(ticks) ==
    LET minute(i) == ticks[i].timestamp \div 60000
        minutes == {minute(i) : i \in DOMAIN ticks}
        group(m) == SelectSeq(ticks, LAMBDA tk : tk.timestamp \div 60000 = m)
        mids(g) == {g[i].mid : i \in DOMAIN g}
        bar(m) ==
            LET g == group(m)
            IN  Row(m, g[1].mid, SetMax(mids(g)), SetMin(mids(g)), g[Len(g)].mid,
                    SeqSum([i \in DOMAIN g |-> g[i].ask_volume + g[i].bid_volume]),
                    "", Len(g),
                    SeqSum([i \in DOMAIN g |-> g[i].ask - g[i].bid]) \div Len(g))
        order == SortAsc(minutes)
    IN  [cols |-> AggCols, rows |-> [k \in DOMAIN order |-> bar(order[k])]]

(* ------------------------------- writer.py ----------------------------- *)
\* compute_bar_hashes: sha256 of "timestamp|open|high|low|close|volume|source",
\* kept as the tuple hashed
bar_hash(r) == <<r.timestamp, r.open, r.high, r.low, r.close, r.volume, r.source>>

\* bad_mask of validate_bars
bad_bar(r) ==
    \/ r.high < Max(r.open, r.close)
    \/ r.low > Min(r.open, r.close)
    \/ r.high < r.low
    \/ r.volume < 0

\* a validation that drops nothing
validate_all(rows) == rows
\* validate_bars(df): df[~bad_mask]
validate_bars(rows) == SelectSeq(rows, LAMBDA r : ~bad_bar(r))

Timestamps(rows) == {rows[i].timestamp : i \in DOMAIN rows}

\* deduplicate(df) sorts with df.sort_values("timestamp"), whose default
\* kind="quicksort" is not stable, and keeps the first row of each timestamp:
\* which of the rows of one timestamp comes first is not determined.  A pick
\* maps each timestamp to the index of the row kept.
DedupPicks(rows) ==
    {f \in [Timestamps(rows) -> DOMAIN rows] :
        \A ts \in Timestamps(rows) : rows[f[ts]].timestamp = ts}

\* deduplicate(df) for one pick: one row per timestamp, ascending
deduplicate(rows, pick) ==
    LET order == SortAsc(Timestamps(rows))
    IN  [k \in DOMAIN order |-> rows[pick[order[k]]]]

\* every value deduplicate(df) can return
DedupOutcomes(rows) == {deduplicate(rows, f) : f \in DedupPicks(rows)}

\* the rows as write_bars stamps them: knowledge_time, bar_hash
stamp(rows, at) ==
    [i \in DOMAIN rows |-> [rows[i] EXCEPT !.knowledge_time = at, !.bar_hash = bar_hash(rows[i])]]

\* df[col_order] in _atomic_write_parquet: only the RAW_BAR_SCHEMA columns
project(rows) ==
    [i \in DOMAIN rows |-> [rows[i] EXCEPT !.tick_count = 0, !.spread_avg = 0]]

\* a grouping that puts every bar into the dataset of 2021
YearsOfFirst(rows) == <<TARGET_START_YEAR>>
\* new_bars.groupby("_year"): the years present, ascending
YearsOf(rows) == SortAsc({YearOfMinute(rows[i].timestamp) : i \in DOMAIN rows})
YearRows(rows, y) == SelectSeq(rows, LAMBDA r : YearOfMinute(r.timestamp) = y)

(* bounds of the catalog specification *)
\* clock readings explored: at the start boundary (Fri 2021-01-01 00:00), around
\* the Friday 22:00 close, around the Sunday 22:00 reopening (hour 70)
ClockReadings == {0, 1, 2, 22, 23, 24, 25, 70, 71, 72, 73}
MaxN == 2           \* batch sizes asked for: 0..MaxN
MaxUpdates == 2     \* update calls per behaviour

NoCall == <<None, None, 0>>

CatRecordCall(call, batch) ==
    /\ c_call' = call
    /\ c_batch' = batch
    /\ c_since' = {}

\* catalog.get_next_batch(pair, n)
CatNextBatch ==
    /\ \E pair \in PairSet, n \in 0..MaxN :
         CatRecordCall(<<"next", pair, n>>, get_next_batch(index, pair, n, now))
    /\ UNCHANGED <<now, wall, df, index>>
    /\ UNCHANGED exceptCatalog

\* catalog.get_error_batch(pair, n)
CatErrorBatch ==
    /\ \E pair \in PairSet, n \in 0..MaxN :
         CatRecordCall(<<"error", pair, n>>, get_error_batch(df, pair, n))
    /\ UNCHANGED <<now, wall, df, index>>
    /\ UNCHANGED exceptCatalog

\* catalog.update(pair, y, m, d, h, status) for a slot of the batch handed out,
\* the slots taken in the order of the batch (a slot may be updated again)
CatUpdate ==
    /\ wall < MaxUpdates
    /\ c_call[1] # None
    /\ \E i \in 1..Min(Len(c_batch), Cardinality(c_since) + 1), status \in Statuses :
         LET key == Key(c_call[2], c_batch[i])
         IN  /\ df' = update_df(df, index, key, status, wall + 1)
             /\ index' = update_index(index, key)
             /\ c_since' = c_since \cup {key}
    /\ wall' = wall + 1
    /\ UNCHANGED <<now, c_call, c_batch>>
    /\ UNCHANGED exceptCatalog

CatInit ==
    /\ now \in ClockReadings
    /\ raw = [k \in FetchSlots |-> Absent]
    /\ wall = 0
    /\ df = << >>
    /\ index = rebuild_index(df)
    /\ c_call = NoCall
    /\ c_batch = << >>
    /\ c_since = {}


(* ------------------- writer.py, catalog.save: the files ---------------- *)
\* the datasets: (pair, year) -> PARQUET_DIR/pair/pair_year.parquet
DatasetKeys == PairSet \X {2021, 2022}

\* what a path holds: no file, a file that is not a complete parquet file
\* (just created, or partly written), or a complete file with its rows
NoFile == [st |-> "absent", rows |-> << >>]
TornFile == [st |-> "torn", rows |-> << >>]
File(rows) == [st |-> "complete", rows |-> rows]


NoFrame == [cols |-> {}, rows |-> << >>]

WriterIdle ==
    /\ w_pc = "idle" /\ w_pair = None /\ w_in = [frame |-> NoFrame, origin |-> None]
    /\ w_new = << >> /\ w_years = << >> /\ w_combined = << >> /\ w_before = NoFile
    /\ w_exc = None /\ w_done = 0
    /\ h_last = [pair |-> None, in |-> NoFrame, exc |-> None,
                 out |-> [k \in DatasetKeys |-> NoFile]]

\* a call of write_bars ends
WriteEnds(exc) ==
    /\ w_pc' = "idle"
    /\ w_exc' = exc
    /\ w_done' = w_done + 1
    /\ h_last' = [pair |-> w_pair', in |-> w_in'.frame, exc |-> exc, out |-> parquet']

\* a write that opens its temporary file before it looks at the frame
write_bars_eager(pair, frame, origin, clock) ==
    /\ w_pc = "idle"
    /\ w_pair' = pair
    /\ w_in' = [frame |-> frame, origin |-> origin]
    /\ UNCHANGED <<parquet, d_catalog, d_catalog_tmp, w_combined, w_before>>
    /\ IF Len(frame.rows) = 0
       THEN /\ wall' = clock
            /\ ptmp' = TornFile
            /\ UNCHANGED <<w_new, w_years>>
            /\ WriteEnds("ok")
       ELSE /\ wall' = clock + 1
            /\ UNCHANGED ptmp
            /\ IF "source" \notin frame.cols
               THEN /\ UNCHANGED <<w_new, w_years>>
                    /\ WriteEnds("KeyError")
               ELSE /\ w_new' = stamp(frame.rows, clock + 1)
                    /\ w_years' = YearsOf(frame.rows)
                    /\ w_pc' = "year"
                    /\ UNCHANGED <<w_exc, w_done, h_last>>

\* write_bars(pair, new_bars) up to the loop over the years, the clock
\* standing at `clock` when it is called
write_bars(pair, frame, origin, clock) ==
    /\ w_pc = "idle"
    /\ w_pair' = pair
    /\ w_in' = [frame |-> frame, origin |-> origin]
    /\ UNCHANGED <<diskVars, w_combined, w_before>>
    /\ IF Len(frame.rows) = 0
       THEN \* a write of zero bars returns at once
            /\ wall' = clock
            /\ UNCHANGED <<w_new, w_years>>
            /\ WriteEnds("ok")
       ELSE /\ wall' = clock + 1
            /\ IF "source" \notin frame.cols
               THEN \* compute_bar_hashes: df["source"] raises KeyError
                    /\ UNCHANGED <<w_new, w_years>>
                    /\ WriteEnds("KeyError")
               ELSE /\ w_new' = stamp(frame.rows, clock + 1)
                    /\ w_years' = YearsOf(frame.rows)
                    /\ w_pc' = "year"
                    /\ UNCHANGED <<w_exc, w_done, h_last>>

\* one pass of the loop up to mkstemp: load, concat, deduplicate, validate, sort
WriteYearMerge ==
    /\ w_pc = "year"
    /\ LET y == Head(w_years)
           existing == parquet[<<w_pair, y>>]
           combined == IF existing.st = "absent" THEN YearRows(w_new, y)
                       ELSE existing.rows \o YearRows(w_new, y)
       IN  \E deduped \in DedupOutcomes(combined) :
              /\ w_combined' = project(validate_bars(deduped))
              /\ w_before' = existing
    /\ ptmp' = TornFile
    /\ w_pc' = "to_parquet"
    /\ UNCHANGED <<wall, parquet, d_catalog, d_catalog_tmp, w_pair, w_in, w_new, w_years,
                   w_exc, w_done, h_last>>
    /\ UNCHANGED <<exceptWriter, runVars>>

\* df.to_parquet(tmp) completes
WriteToParquet ==
    /\ w_pc = "to_parquet"
    /\ ptmp' = File(w_combined)
    /\ w_pc' = "rename"
    /\ UNCHANGED <<wall, parquet, d_catalog, d_catalog_tmp, w_pair, w_in, w_new, w_years,
                   w_combined, w_before, w_exc, w_done, h_last>>
    /\ UNCHANGED <<exceptWriter, runVars>>

\* df.to_parquet(tmp) raises: tmp.unlink(missing_ok=True); raise
WriteToParquetFails ==
    /\ w_pc = "to_parquet"
    /\ ptmp' = NoFile
    /\ UNCHANGED <<wall, parquet, d_catalog, d_catalog_tmp, w_pair, w_in, w_new, w_years,
                   w_combined, w_before>>
    /\ UNCHANGED <<exceptWriter, runVars>>
    /\ WriteEnds("OSError")

\* tmp.rename(path), then the next year or the end of write_bars
WriteRename ==
    /\ w_pc = "rename"
    /\ parquet' = [parquet EXCEPT ![<<w_pair, Head(w_years)>>] = ptmp]
    /\ ptmp' = NoFile
    /\ w_years' = Tail(w_years)
    /\ UNCHANGED <<wall, d_catalog, d_catalog_tmp, w_pair, w_in, w_new, w_combined, w_before>>
    /\ IF Tail(w_years) = << >>
       THEN WriteEnds("ok")
       ELSE /\ w_pc' = "year"
            /\ UNCHANGED <<w_exc, w_done, h_last>>
    /\ UNCHANGED <<exceptWriter, runVars>>

\* tmp.rename(path) raises: tmp.unlink(missing_ok=True); raise
WriteRenameFails ==
    /\ w_pc = "rename"
    /\ ptmp' = NoFile
    /\ UNCHANGED <<wall, parquet, d_catalog, d_catalog_tmp, w_pair, w_in, w_new, w_years,
                   w_combined, w_before>>
    /\ UNCHANGED <<exceptWriter, runVars>>
    /\ WriteEnds("OSError")

\* a call of Catalog.save ends
SaveEnds(exc) ==
    /\ w_pc' = "idle"
    /\ w_exc' = exc
    /\ w_done' = w_done + 1

\* a save that writes the final path itself
save_in_place ==
    /\ w_pc = "idle"
    /\ d_catalog' = TornFile
    /\ w_before' = d_catalog
    /\ w_pc' = "save_write"
    /\ UNCHANGED <<parquet, ptmp, d_catalog_tmp, w_pair, w_in, w_new, w_years,
                   w_combined, w_exc, w_done, h_last>>

\* Catalog.save is called: self.df.to_parquet(tmp) opens the file
save_open ==
    /\ w_pc = "idle"
    /\ d_catalog_tmp' = TornFile
    /\ w_before' = d_catalog
    /\ w_pc' = "save_write"
    /\ UNCHANGED <<parquet, ptmp, d_catalog, w_pair, w_in, w_new, w_years, w_combined,
                   w_exc, w_done, h_last>>

\* Catalog.save: self.df.to_parquet(tmp) completes
SaveWrite ==
    /\ w_pc = "save_write"
    /\ d_catalog_tmp' = File(df)
    /\ w_pc' = "save_rename"
    /\ UNCHANGED <<wall, parquet, ptmp, d_catalog, w_pair, w_in, w_new, w_years, w_combined,
                   w_before, w_exc, w_done, h_last>>
    /\ UNCHANGED <<exceptWriter, runVars>>

\* Catalog.save: self.df.to_parquet(tmp) raises; save has no handler
SaveWriteFails ==
    /\ w_pc = "save_write"
    /\ SaveEnds("OSError")
    /\ UNCHANGED <<wall, diskVars, w_pair, w_in, w_new, w_years, w_combined, w_before, h_last>>
    /\ UNCHANGED <<exceptWriter, runVars>>

\* Catalog.save: tmp.rename(config.CATALOG_PATH)
SaveRename ==
    /\ w_pc = "save_rename"
    /\ d_catalog' = d_catalog_tmp
    /\ d_catalog_tmp' = NoFile
    /\ SaveEnds("ok")
    /\ UNCHANGED <<wall, parquet, ptmp, w_pair, w_in, w_new, w_years, w_combined, w_before,
                   h_last>>
    /\ UNCHANGED <<exceptWriter, runVars>>

\* Catalog.save: tmp.rename raises; save has no handler
SaveRenameFails ==
    /\ w_pc = "save_rename"
    /\ SaveEnds("OSError")
    /\ UNCHANGED <<wall, diskVars, w_pair, w_in, w_new, w_years, w_combined, w_before, h_last>>
    /\ UNCHANGED <<exceptWriter, runVars>>

(* ------------------ the storage engine called directly ----------------- *)
MaxOps == 2         \* calls of write_bars, update and save per behaviour

\* bars handed to write_bars: a valid bar and one with high < open in minute 10
\* of 2021-01-01, a valid bar at 2022-01-01 00:00
InputBars ==
    { Row(10, 10, 12, 9, 11, 5, "dukascopy", 0, 0),
      Row(10, 10, 9, 9, 10, 1, "dukascopy", 0, 0),
      Row(525600, 10, 12, 9, 11, 5, "dukascopy", 0, 0) }
\* the frames of at most two of them
InputFrames ==
    {[cols |-> InCols, rows |-> q] : q \in UNION {[1..k -> InputBars] : k \in 0..2}}

\* write_bars(pair, new_bars) called with a frame of the writer's own schema
WriteDirect ==
    /\ w_done < MaxOps
    /\ \E frame \in InputFrames : write_bars("EURUSD", frame, "direct", wall)
    /\ UNCHANGED <<exceptWriter, runVars>>

\* decode -> aggregate -> write: write_bars(pair, aggregate_ticks(parse_ticks(data)))
\* for the hour 2021-01-01 00h
WritePipeline ==
    /\ w_done < MaxOps
    /\ \E body \in Payloads :
         /\ ~Corrupt(body)
         /\ write_bars("EURUSD", aggregate_ticks(parse_ticks(body, "EURUSD", 0)), body, wall)
    /\ UNCHANGED <<exceptWriter, runVars>>

\* catalog.update for the slot 2021-01-01 00h
StoreUpdate ==
    /\ w_pc = "idle"
    /\ w_done < MaxOps /\ wall < MaxOps
    /\ \E status \in Statuses :
         LET key == Key("EURUSD", SlotOf(0))
         IN  /\ df' = update_df(df, index, key, status, wall + 1)
             /\ index' = update_index(index, key)
    /\ wall' = wall + 1
    /\ UNCHANGED <<now, raw, diskVars, fetchVars, pureVars, catCallVars, writerVars, runVars>>

\* catalog.save()
SaveOpen ==
    /\ w_done < MaxOps
    /\ save_open
    /\ UNCHANGED <<wall, exceptWriter, runVars>>

StoreInit ==
    /\ now = 0 /\ wall = 0 /\ df = << >> /\ index = {}
    /\ c_call = NoCall /\ c_batch = << >> /\ c_since = {}
    /\ raw = [k \in FetchSlots |-> Absent]

StoreNext ==
    \/ WriteDirect
    \/ WritePipeline
    \/ WriteYearMerge
    \/ WriteToParquet
    \/ WriteToParquetFails
    \/ WriteRename
    \/ WriteRenameFails
    \/ StoreUpdate
    \/ SaveOpen
    \/ SaveWrite
    \/ SaveWriteFails
    \/ SaveRename
    \/ SaveRenameFails

(* ------------------------------- runner.py ----------------------------- *)
RunClock == 100     \* the clock during a run: Tue 2021-01-05 04:00, 52 open hours behind it
VariedSlots == 1    \* the most recent hours, for which the feed may answer anything

\* the hours whose raw file a run may write
RunSlots == PairSet \X ((RunClock - VariedSlots)..(RunClock - 1))

\* the `max_hours` arguments explored: << >> is None
MaxHoursArgs == {<< >>, <<0>>, <<3>>}
NoArgs == [pairs |-> << >>, max_hours |-> << >>, retry_errors |-> FALSE]
\* no call of fetch_hour yet
NoFetch == [status |-> None, data |-> None]

RECURSIVE DaysBefore(_, _)
\* days from 1 Jan of TARGET_START_YEAR to day 1 of month m of year y
DaysBefore(y, m) ==
    IF m > 1 THEN DaysInMonth(y, m - 1) + DaysBefore(y, m - 1)
    ELSE IF y > TARGET_START_YEAR THEN DaysInYear(y - 1) + DaysBefore(y - 1, 1)
    ELSE 0

\* hour_start = datetime(year, month, day, hour) as an hour count
HourCount(slot) == (DaysBefore(slot[1], slot[2]) + slot[3] - 1) * 24 + slot[4]

\* what one call of fetch_hour for hour t can do: return (status, data) or
\* raise, and what it leaves at the raw path ("keep": what was there)
FetchOutcomes(t) ==
    IF t >= now - VariedSlots
    THEN {[status |-> "fetched", data |-> b, raw |-> b] : b \in Payloads}
         \cup {[status |-> st, data |-> None, raw |-> "keep"] : st \in {"no_data", "error", "raised"}}
         \cup {[status |-> "raised", data |-> None, raw |-> Torn]}
    ELSE {[status |-> "no_data", data |-> None, raw |-> "keep"]}

RECURSIVE ConcatRows(_)
ConcatRows(buf) == IF buf = << >> THEN << >> ELSE Head(buf).rows \o ConcatRows(Tail(buf))
\* pd.concat(buf, ignore_index=True)
Concat(buf) == [cols |-> UNION {buf[i].cols : i \in DOMAIN buf}, rows |-> ConcatRows(buf)]

\* the orders in which a set of pairs can be listed
Orders(S) == {q \in [1..Cardinality(S) -> S] : \A i, j \in DOMAIN q : i # j => q[i] # q[j]}
SeqToSet(q) == {q[i] : i \in DOMAIN q}

\* n = hours_per_pair + (1 if i < remainder else 0), i counted from 0
BatchSize(max_hours, n_pairs, i) ==
    (max_hours \div n_pairs) + (IF i - 1 < max_hours % n_pairs THEN 1 ELSE 0)

\* `max_hours or config.MAX_HOURS_PER_RUN`: None and 0 are both falsy
max_hours_or_default(mh) ==
    IF mh = << >> \/ mh = <<0>> THEN MAX_HOURS_PER_RUN ELSE mh[1]

\* a loop body that does not sleep
request_delay_skipped(n) == n
\* time.sleep(config.REQUEST_DELAY_SECONDS) at the end of the loop body: one
\* more sleep made
request_delay(n) == n + 1

\* run(pairs, max_hours, retry_errors) up to the round-robin loop
RunStart ==
    /\ r_pc = "idle"
    /\ \E pairs \in PairArgs, mh \in MaxHoursArgs, retry \in BOOLEAN, order \in Orders(PairSet) :
         LET max_hours == max_hours_or_default(mh)
             loaded == IF d_catalog.st = "absent" THEN << >> ELSE d_catalog.rows
             idx == rebuild_index(loaded)
             batches == [pair \in SeqToSet(pairs) |->
                           LET i == CHOOSE i \in DOMAIN pairs : pairs[i] = pair
                               n == BatchSize(max_hours, Len(pairs), i)
                           IN  IF retry THEN get_error_batch(loaded, pair, n)
                               ELSE get_next_batch(idx, pair, n, now)]
             total_pending == SeqSum([i \in DOMAIN pairs |-> Len(batches[pairs[i]])])
         IN  /\ r_args' = [pairs |-> pairs, max_hours |-> mh, retry_errors |-> retry]
             /\ df' = loaded
             /\ index' = idx
             /\ r_batches' = batches
             /\ r_order' = SelectSeq(order, LAMBDA pr : pr \in SeqToSet(pairs))
             /\ IF total_pending = 0
                THEN /\ r_pc' = "done"
                     /\ UNCHANGED <<r_pos, r_buffers, r_active, r_fsw>>
                ELSE /\ r_pc' = "loop"
                     /\ r_pos' = [pair \in SeqToSet(pairs) |-> 0]
                     /\ r_buffers' = [pair \in SeqToSet(pairs) |-> << >>]
                     /\ r_active' = SeqToSet(pairs)
                     /\ r_fsw' = [pair \in SeqToSet(pairs) |-> 0]
    /\ UNCHANGED <<r_round, r_fetched, r_sleeps, r_cur, r_final, h_bars, r_last>>
    /\ UNCHANGED <<clockVars, raw, diskVars, fetchVars, pureVars, catCallVars, writerVars>>

\* a list that holds only the first of the active pairs
list_first(order, active) == SubSeq(SelectSeq(order, LAMBDA pr : pr \in active), 1, 1)
\* list(active_pairs), the set listed in the order `order`
list_active(order, active) == SelectSeq(order, LAMBDA pr : pr \in active)

\* `while active_pairs:` and `for pair in list(active_pairs):` start a round,
\* or the loop is left for the final flush
RunRound ==
    /\ r_pc = "loop" /\ r_round = << >>
    /\ IF r_active = {}
       THEN r_pc' = "final" /\ UNCHANGED r_round
       ELSE r_round' = list_active(r_order, r_active) /\ UNCHANGED r_pc
    /\ UNCHANGED <<r_args, r_order, r_batches, r_pos, r_buffers, r_active, r_fsw, r_fetched,
                   r_sleeps, r_cur, r_final, h_bars, r_last>>
    /\ UNCHANGED <<clockVars, raw, diskVars, fetchVars, pureVars, catVars, catCallVars, writerVars>>

\* next(pair_iterators[pair], None) is None: discard the pair, continue
RunExhausted ==
    /\ r_pc = "loop" /\ r_round # << >>
    /\ r_pos[Head(r_round)] = Len(r_batches[Head(r_round)])
    /\ r_active' = r_active \ {Head(r_round)}
    /\ r_round' = Tail(r_round)
    /\ UNCHANGED <<r_pc, r_args, r_order, r_batches, r_pos, r_buffers, r_fsw, r_fetched,
                   r_sleeps, r_cur, r_final, h_bars, r_last>>
    /\ UNCHANGED <<clockVars, raw, diskVars, fetchVars, pureVars, catVars, catCallVars, writerVars>>

\* one pass of the for loop for a slot: fetch_hour, catalog.update, parse,
\* aggregate, buffer, count, and the periodic flush up to the end of write_bars
\* or the start of catalog.save
RunSlot ==
    /\ r_pc = "loop" /\ r_round # << >>
    /\ r_pos[Head(r_round)] < Len(r_batches[Head(r_round)])
    /\ LET pair == Head(r_round)
           slot == r_batches[pair][r_pos[pair] + 1]
           key  == Key(pair, slot)
           t    == HourCount(slot)
       IN  \E out \in FetchOutcomes(t) :
            LET parse_fails == out.status = "fetched" /\ Corrupt(out.data)
                bars == IF out.status = "fetched" /\ ~parse_fails
                        THEN aggregate_ticks(parse_ticks(out.data, pair, t)) ELSE NoFrame
                df1  == update_df(df, index, key, out.status, wall + 1)
                idx1 == update_index(index, key)
                clock == IF parse_fails THEN wall + 2 ELSE wall + 1
                buffers == IF Len(bars.rows) > 0
                           THEN [r_buffers EXCEPT ![pair] = Append(@, bars)] ELSE r_buffers
                fsw == r_fsw[pair] + 1
            IN  /\ raw' = IF out.raw = "keep" THEN raw ELSE [raw EXCEPT ![<<pair, t>>] = out.raw]
                /\ r_pos' = [r_pos EXCEPT ![pair] = @ + 1]
                /\ r_last' = [status |-> out.status, data |-> out.data]
                /\ IF out.status = "raised"
                   THEN \* the exception leaves fetch_hour and run
                        /\ r_pc' = "raised"
                        /\ UNCHANGED <<wall, diskVars, catVars, writerVars, r_buffers, r_fsw,
                                       r_fetched, r_sleeps, r_cur, r_round, h_bars>>
                   ELSE /\ df' = IF parse_fails THEN update_df(df1, idx1, key, "error", wall + 2)
                                 ELSE df1
                        /\ index' = idx1
                        /\ r_fetched' = r_fetched + 1
                        /\ h_bars' = h_bars \cup
                                {[pair |-> pair, key |-> key, timestamp |-> bars.rows[i].timestamp] :
                                    i \in DOMAIN bars.rows}
                        /\ IF fsw < WRITE_EVERY
                           THEN \* time.sleep(config.REQUEST_DELAY_SECONDS)
                                /\ r_fsw' = [r_fsw EXCEPT ![pair] = fsw]
                                /\ r_buffers' = buffers
                                /\ r_sleeps' = request_delay(r_sleeps)
                                /\ r_round' = Tail(r_round)
                                /\ wall' = clock
                                /\ UNCHANGED <<diskVars, writerVars, r_pc, r_cur>>
                           ELSE /\ r_cur' = pair
                                /\ UNCHANGED <<r_sleeps, r_round>>
                                /\ IF buffers[pair] = << >>
                                   THEN \* _flush_pair returns 0; catalog.save()
                                        /\ r_fsw' = [r_fsw EXCEPT ![pair] = 0]
                                        /\ r_buffers' = buffers
                                        /\ wall' = clock
                                        /\ save_open
                                        /\ r_pc' = "save"
                                   ELSE \* _flush_pair: write_bars(pair, combined)
                                        /\ r_fsw' = [r_fsw EXCEPT ![pair] = fsw]
                                        /\ r_buffers' = buffers
                                        /\ write_bars(pair, Concat(buffers[pair]), "run", clock)
                                        /\ r_pc' = "flush"
    /\ UNCHANGED <<r_args, r_order, r_batches, r_active, r_final>>
    /\ UNCHANGED <<now, fetchVars, pureVars, catCallVars>>

\* a flush that carries on to the save when write_bars has raised
RunFlushedSwallow ==
    /\ r_pc \in {"flush", "final_flush"} /\ w_pc = "idle"
    /\ r_buffers' = IF w_exc = "ok" THEN [r_buffers EXCEPT ![r_cur] = << >>] ELSE r_buffers
    /\ IF r_pc = "flush"
       THEN /\ r_fsw' = [r_fsw EXCEPT ![r_cur] = 0]
            /\ save_open
            /\ r_pc' = "save"
            /\ UNCHANGED <<wall, r_final, r_cur>>
       ELSE /\ r_final' = r_final + 1
            /\ r_pc' = "final"
            /\ UNCHANGED <<wall, diskVars, writerVars, r_fsw, r_cur>>
    /\ UNCHANGED <<r_args, r_order, r_batches, r_pos, r_active, r_round, r_fetched, r_sleeps,
                   h_bars, r_last>>
    /\ UNCHANGED <<now, raw, fetchVars, pureVars, catVars, catCallVars>>

\* write_bars has returned to, or raised in, _flush_pair
RunFlushed ==
    /\ r_pc \in {"flush", "final_flush"} /\ w_pc = "idle"
    /\ IF w_exc # "ok"
       THEN \* the exception leaves _flush_pair and run
            /\ r_pc' = "raised"
            /\ UNCHANGED <<wall, diskVars, writerVars, r_buffers, r_fsw, r_final, r_cur>>
       ELSE /\ r_buffers' = [r_buffers EXCEPT ![r_cur] = << >>]
            /\ IF r_pc = "flush"
               THEN \* fetches_since_write[pair] = 0; catalog.save()
                    /\ r_fsw' = [r_fsw EXCEPT ![r_cur] = 0]
                    /\ save_open
                    /\ r_pc' = "save"
                    /\ UNCHANGED <<wall, r_final, r_cur>>
               ELSE /\ r_final' = r_final + 1
                    /\ r_pc' = "final"
                    /\ UNCHANGED <<wall, diskVars, writerVars, r_fsw, r_cur>>
    /\ UNCHANGED <<r_args, r_order, r_batches, r_pos, r_active, r_round, r_fetched, r_sleeps,
                   h_bars, r_last>>
    /\ UNCHANGED <<now, raw, fetchVars, pureVars, catVars, catCallVars>>

\* catalog.save() has returned or raised
RunSaved ==
    /\ r_pc \in {"save", "final_save"} /\ w_pc = "idle"
    /\ IF w_exc # "ok"
       THEN r_pc' = "raised" /\ UNCHANGED <<r_sleeps, r_round>>
       ELSE IF r_pc = "save"
            THEN \* time.sleep(config.REQUEST_DELAY_SECONDS)
                 /\ r_sleeps' = request_delay(r_sleeps)
                 /\ r_round' = Tail(r_round)
                 /\ r_pc' = "loop"
            ELSE r_pc' = "done" /\ UNCHANGED <<r_sleeps, r_round>>
    /\ UNCHANGED <<r_args, r_order, r_batches, r_pos, r_buffers, r_active, r_fsw, r_fetched,
                   r_cur, r_final, h_bars, r_last>>
    /\ UNCHANGED <<clockVars, raw, diskVars, fetchVars, pureVars, catVars, catCallVars, writerVars>>

\* final flush: _flush_pair(pair, pair_buffers) for the next pair of `pairs`
RunFinalFlush ==
    /\ r_pc = "final" /\ r_final < Len(r_args.pairs)
    /\ LET pair == r_args.pairs[r_final + 1]
       IN  IF r_buffers[pair] = << >>
           THEN /\ r_final' = r_final + 1
                /\ UNCHANGED <<wall, diskVars, writerVars, r_pc, r_cur>>
           ELSE /\ write_bars(pair, Concat(r_buffers[pair]), "run", wall)
                /\ r_cur' = pair
                /\ r_pc' = "final_flush"
                /\ UNCHANGED r_final
    /\ UNCHANGED <<r_args, r_order, r_batches, r_pos, r_buffers, r_active, r_round, r_fsw,
                   r_fetched, r_sleeps, h_bars, r_last>>
    /\ UNCHANGED <<now, raw, fetchVars, pureVars, catVars, catCallVars>>

\* the catalog.save() that ends the run
RunFinalSave ==
    /\ r_pc = "final" /\ r_final = Len(r_args.pairs)
    /\ save_open
    /\ r_pc' = "final_save"
    /\ UNCHANGED <<r_args, r_order, r_batches, r_pos, r_buffers, r_active, r_round, r_fsw,
                   r_fetched, r_sleeps, r_cur, r_final, h_bars, r_last>>
    /\ UNCHANGED <<clockVars, raw, fetchVars, pureVars, catVars, catCallVars>>

\* the process is terminated: its memory is gone, the files stay as they are
RunTerminate ==
    /\ r_pc \in {"loop", "flush", "save", "final", "final_flush", "final_save"}
    /\ r_pc' = "terminated"
    /\ df' = << >> /\ index' = {}
    /\ w_pc' = "idle" /\ w_exc' = "terminated"
    /\ w_pair' = None /\ w_in' = [frame |-> NoFrame, origin |-> None]
    /\ w_new' = << >> /\ w_years' = << >> /\ w_combined' = << >> /\ w_before' = NoFile
    /\ r_args' = NoArgs /\ r_order' = << >> /\ r_batches' = << >> /\ r_pos' = << >>
    /\ r_buffers' = << >> /\ r_active' = {} /\ r_round' = << >> /\ r_fsw' = << >>
    /\ r_fetched' = 0 /\ r_sleeps' = 0 /\ r_cur' = None /\ r_final' = 0
    /\ r_last' = NoFetch
    /\ UNCHANGED <<w_done, h_last, h_bars>>
    /\ UNCHANGED <<clockVars, raw, diskVars, fetchVars, pureVars, catCallVars>>

\* a catalog file that an earlier run left: empty, or the most recent hour of
\* EURUSD recorded as an error
RunCatalogs ==
    { NoFile,
      File(update_df(<< >>, {}, Key("EURUSD", SlotOf(RunClock - 1)), "error", 0)) }

RunInit ==
    /\ now = RunClock
    /\ raw = [k \in RunSlots |-> Absent]
    /\ parquet = [k \in DatasetKeys |-> NoFile]
    /\ ptmp = NoFile /\ d_catalog_tmp = NoFile
    /\ d_catalog \in RunCatalogs

RunNext ==
    \/ RunStart
    \/ RunRound
    \/ RunExhausted
    \/ RunSlot
    \/ RunFlushed
    \/ RunSaved
    \/ RunFinalFlush
    \/ RunFinalSave
    \/ RunTerminate
    \/ SaveWrite
    \/ SaveWriteFails
    \/ SaveRename
    \/ SaveRenameFails

(* ------------------------------ validator.py --------------------------- *)
GAP_MINUTES == 5    \* pd.Timedelta(minutes=5)
MaxGapBars == 3     \* bars in a dataset handed to _find_gaps

\* _is_weekend_closed(current.to_pydatetime()) for a minute count since
\* 2021-01-01T00:00Z: only the weekday and the hour of the datetime are read
closed_at(minute) == is_weekend_closed(minute \div 60)

RECURSIVE spans_weekend_walk(_, _)
\* the while loop of _spans_weekend: current < end, steps of one hour
spans_weekend_walk(current, end) ==
    IF current < end
    THEN IF ~closed_at(current) THEN FALSE ELSE spans_weekend_walk(current + 60, end)
    ELSE TRUE

\* _spans_weekend(start, end): current = start + timedelta(hours=1)
spans_weekend(start, end) == spans_weekend_walk(start + 60, end)

\* _find_gaps(df) for the timestamps ts of df, sorted: one entry for every
\* difference above 5 minutes that _spans_weekend does not skip
find_gaps(ts) ==
    IF Len(ts) < 2 THEN << >>
    ELSE LET hits == {i \in 2..Len(ts) :
                         /\ ts[i] - ts[i - 1] > GAP_MINUTES
                         /\ ~spans_weekend(ts[i - 1], ts[i])}
             order == SortAsc(hits)
         IN  [k \in DOMAIN order |->
                [from |-> ts[order[k] - 1], to |-> ts[order[k]],
                 minutes |-> ts[order[k]] - ts[order[k] - 1]]]

\* bar timestamps of the datasets examined: Fri 2021-01-01 21:30 and 22:45,
\* Sat 10:00 and 10:10, Sun 23:00, Wed 2021-01-06 10:00, 10:04, 10:10 and
\* 12:00, Thu 09:00
GapTimes == {1290, 1365, 2040, 2050, 4260, 7800, 7804, 7810, 7920, 9180}

\* the datasets: up to MaxGapBars of these timestamps, ascending
GapDatasets == {SortAsc(S) : S \in {T \in SUBSET GapTimes : Cardinality(T) <= MaxGapBars}}

GapsInit == q_pc = "call" /\ q_in \in GapDatasets /\ q_out = << >>

\* _find_gaps(df) is called and returns
FindGaps ==
    /\ q_pc = "call"
    /\ q_out' = find_gaps(q_in)
    /\ q_pc' = "done"
    /\ UNCHANGED <<q_in, exceptPure>>

(* ----------------------------- specifications ------------------------- *)
FetchIdle ==
    /\ f_slot = <<"EURUSD", 0>> /\ f_pc = "done" /\ f_attempt = 1 /\ f_status = None
    /\ f_data = None /\ f_sleeps = << >> /\ f_requests = 0 /\ f_last = None
    /\ f_n429 = 0 /\ f_nTransient = 0

CatalogIdle ==
    /\ wall = 0 /\ df = << >> /\ index = {}
    /\ c_call = NoCall /\ c_batch = << >> /\ c_since = {}

DiskEmpty ==
    /\ parquet = [k \in DatasetKeys |-> NoFile]
    /\ ptmp = NoFile /\ d_catalog = NoFile /\ d_catalog_tmp = NoFile

RunIdle ==
    /\ r_pc = "idle" /\ r_args = NoArgs /\ r_order = << >> /\ r_batches = << >>
    /\ r_pos = << >> /\ r_buffers = << >> /\ r_active = {} /\ r_round = << >>
    /\ r_fsw = << >> /\ r_fetched = 0 /\ r_sleeps = 0 /\ r_cur = None /\ r_final = 0
    /\ h_bars = {} /\ r_last = NoFetch

PureIdle == q_pc = "idle" /\ q_in = << >> /\ q_out = << >>

\* fetch_hour, one call
InitFetch ==
    FetchInit /\ now = 0 /\ CatalogIdle /\ DiskEmpty /\ WriterIdle /\ RunIdle /\ PureIdle
SpecFetch == InitFetch /\ [][FetchHourStep]_vars

\* fetch_hour when every step that can happen does: session.get returns or
\* raises within its timeout, and the rest of the loop body is straight-line code
SpecFetchFair == InitFetch /\ [][FetchHourStep]_vars /\ WF_vars(FetchHourStep)

\* the Catalog in memory
InitCatalog == CatInit /\ FetchIdle /\ DiskEmpty /\ WriterIdle /\ RunIdle /\ PureIdle
CatNext == CatNextBatch \/ CatErrorBatch \/ CatUpdate
SpecCatalog == InitCatalog /\ [][CatNext]_vars

\* write_bars and Catalog.save, step by step
InitStore == StoreInit /\ FetchIdle /\ DiskEmpty /\ WriterIdle /\ RunIdle /\ PureIdle
SpecStore == InitStore /\ [][StoreNext]_vars

\* the buffers handed to _flush_pair: empty, or one frame as the runner or a
\* caller with the writer's schema buffers it
FlushFrames ==
    {f \in InputFrames : Len(f.rows) = 1}
    \cup {aggregate_ticks(parse_ticks(body, "EURUSD", 0)) : body \in {"scenario", "truncated"}}
FlushBuffers == {<< >>} \cup {<<f>> : f \in FlushFrames}

\* _flush_pair(pair, buffers): returns 0 for an empty buffer, else hands the
\* concatenated frames to write_bars; q_in is the buffer, q_out the bar count
FlushPair ==
    /\ w_done < MaxOps /\ w_pc = "idle"
    /\ \E buf \in FlushBuffers :
         /\ q_pc' = "flushed"
         /\ q_in' = buf
         /\ IF buf = << >>
            THEN /\ q_out' = 0
                 /\ UNCHANGED <<wall, diskVars, writerVars>>
            ELSE /\ q_out' = Len(ConcatRows(buf))
                 /\ write_bars("EURUSD", Concat(buf), "flush", wall)
    /\ UNCHANGED <<now, raw, fetchVars, catVars, catCallVars, runVars>>

FlushNext ==
    \/ WriteDirect
    \/ WritePipeline
    \/ FlushPair
    \/ WriteYearMerge
    \/ WriteToParquet
    \/ WriteToParquetFails
    \/ WriteRename
    \/ WriteRenameFails

\* write_bars called directly and through _flush_pair
SpecFlush == InitStore /\ [][FlushNext]_vars

\* run(), from its call to its end or the end of the process.  write_bars never
\* reaches its loop over the years here (WriteNeverProceeds), so the steps of
\* that loop are not steps of this specification.
InitRun == RunInit /\ CatalogIdle /\ FetchIdle /\ WriterIdle /\ RunIdle /\ PureIdle
Spec == InitRun /\ [][RunNext]_vars
\* the runner under a scheduler that lets an enabled step happen: every step of
\* run() is straight-line code whose calls return
SpecRunFair == InitRun /\ [][RunNext]_vars /\ WF_vars(RunNext)

WriteNeverProceeds == w_pc \in {"idle", "save_write", "save_rename"}

\* everything but the function called on its own
RestIdle ==
    /\ now = 0 /\ raw = [k \in FetchSlots |-> Absent]
    /\ CatalogIdle /\ FetchIdle /\ DiskEmpty /\ WriterIdle /\ RunIdle

\* validator._find_gaps, one call
InitGaps == GapsInit /\ RestIdle
SpecGaps == InitGaps /\ [][FindGaps]_vars

(* ------------------------ parser.py: parse_ticks ----------------------- *)
ParseHours == 30    \* the hours parsed for: hour counts 0..ParseHours - 1

ParseInputs == [body : Payloads, pair : PairSet, t : 0..(ParseHours - 1)]

ParseInit == q_pc = "call" /\ q_in \in ParseInputs /\ q_out = << >>

\* parse_ticks(raw_bytes, pair, y, m, d, h) is called and returns or raises:
\* decompress() re-raises the lzma.LZMAError of a corrupt stream
ParseTicks ==
    /\ q_pc = "call"
    /\ q_out' = IF Corrupt(q_in.body)
                THEN [exc |-> "LZMAError", ticks |-> << >>]
                ELSE [exc |-> None, ticks |-> parse_ticks(q_in.body, q_in.pair, q_in.t)]
    /\ q_pc' = "done"
    /\ UNCHANGED <<q_in, exceptPure>>

InitParse == ParseInit /\ RestIdle
SpecParse == InitParse /\ [][ParseTicks]_vars

(* -------------------- aggregator.py: aggregate_ticks ------------------ *)
MaxTicks == 3       \* ticks per call of aggregate_ticks

\* times of day of the ticks, in ms: two in minute 0, the last ms of minute 0,
\* the first of minute 1, one in minute 2
TickTimes == {0, 30000, 59999, 60000, 150000}
\* ask and bid in points with the volumes quoted
TickQuotes == {<<110001, 109999, 1, 1>>, <<110052, 110048, 2, 0>>, <<109951, 109949, 0, 3>>}

Tick(ts, q) ==
    [timestamp |-> ts, ask |-> q[1], bid |-> q[2], mid |-> (q[1] + q[2]) \div 2,
     ask_volume |-> q[3], bid_volume |-> q[4]]

Ticks == {Tick(ts, q) : ts \in TickTimes, q \in TickQuotes}

\* the tick lists in chronological order, up to MaxTicks long
TickLists ==
    UNION { {l \in [1..n -> Ticks] : \A i \in 1..(n - 1) : l[i].timestamp <= l[i + 1].timestamp}
            : n \in 0..MaxTicks }

AggInit == q_pc = "call" /\ q_in \in TickLists /\ q_out = << >>

\* aggregate_ticks(ticks) is called and returns
Aggregate ==
    /\ q_pc = "call"
    /\ q_out' = aggregate_ticks(q_in)
    /\ q_pc' = "done"
    /\ UNCHANGED <<q_in, exceptPure>>

InitAggregate == AggInit /\ RestIdle
SpecAggregate == InitAggregate /\ [][Aggregate]_vars

(* --------------- catalog.py, validator.py: weekend closure ------------- *)
ClosedHours == 336      \* the hours examined: two weeks from 2021-01-01T00:00Z
\* the minutes of the hour examined
MinuteMarks == {0, 1, 59}
ClosedInputs == {60 * t + m : t \in 0..(ClosedHours - 1), m \in MinuteMarks}

ClosedInit == q_pc = "call" /\ q_in \in ClosedInputs /\ q_out = << >>

\* _is_weekend_closed(dt) as the catalog calls it and as the validator, which
\* imports it from the catalog, calls it, for the datetime of minute count q_in
IsClosed ==
    /\ q_pc = "call"
    /\ q_out' = <<is_weekend_closed(q_in \div 60), closed_at(q_in)>>
    /\ q_pc' = "done"
    /\ UNCHANGED <<q_in, exceptPure>>

InitClosed == ClosedInit /\ RestIdle
SpecClosed == InitClosed /\ [][IsClosed]_vars

(* ------------------------- properties: fetch_hour ---------------------- *)
\* C2: a 429 response does not consume a retry: fetch_hour returns "error"
\* only after MAX_RETRIES transient failures, however many 429 responses came
C2_RateLimitKeepsBudget ==
    (f_pc = "done" /\ f_status = "error") => f_nTransient = MAX_RETRIES

\* C3: fetch_hour never raises: every network and I/O failure becomes a
\* returned outcome
C3_NeverRaises == f_pc # "raised"

\* C4: a transient failure on attempt k < MAX_RETRIES is followed by a sleep of
\* RETRY_DELAY_SECONDS * 2^(k-1) and another attempt; on attempt MAX_RETRIES it
\* ends the call with ("error", None); at most MAX_RETRIES requests are made;
\* and when "fetched" is returned the raw-archive file of the slot holds the
\* body received, which is the data returned
C4_RetryAndArchive ==
    [][ /\ f_requests' <= MAX_RETRIES
        /\ (f_nTransient' = f_nTransient + 1) =>
              IF f_attempt < MAX_RETRIES
              THEN /\ f_sleeps' = Append(f_sleeps, RETRY_DELAY_SECONDS * (2 ^ (f_attempt - 1)))
                   /\ f_attempt' = f_attempt + 1
                   /\ f_pc' = "request"
              ELSE /\ f_sleeps' = f_sleeps
                   /\ f_pc' = "done" /\ f_status' = "error" /\ f_data' = None
        /\ (f_pc' = "done" /\ f_status' = "fetched") =>
              /\ f_last' \in Payloads
              /\ f_data' = f_last'
              /\ raw'[f_slot] = f_last'
      ]_vars

\* two transient failures, then a body that is archived and returned
C4_Witness ==
    /\ f_pc = "done" /\ f_status = "fetched"
    /\ f_nTransient = 2 /\ f_n429 = 0
    /\ f_sleeps = <<RETRY_DELAY_SECONDS, 2 * RETRY_DELAY_SECONDS>>
    /\ raw[f_slot] = f_data

(* ---------------------- properties: get_next_batch --------------------- *)
\* C5: get_next_batch(pair, n) returns at most n slots; none is in the
\* catalog for the pair, whatever its status; none is a closed hour; each is an
\* hour from the start boundary up to the last complete hour; and they are in
\* strictly descending order
C5_NextBatch ==
    (c_call[1] = "next" /\ c_since = {}) =>
        LET pair == c_call[2]
            n == c_call[3]
        IN  /\ Len(c_batch) <= n
            /\ \A i \in DOMAIN c_batch :
                 /\ Key(pair, c_batch[i]) \notin index
                 /\ \A j \in DOMAIN df : RowKey(df[j]) # Key(pair, c_batch[i])
                 /\ \E t \in 0..(now - 1) :
                      /\ SlotOf(t) = c_batch[i]
                      /\ ~(Weekday(t) = 5)
                      /\ ~(Weekday(t) = 6 /\ t % 24 < 22)
                      /\ ~(Weekday(t) = 4 /\ t % 24 >= 22)
            /\ \A i \in 1..(Len(c_batch) - 1) : SlotLess(c_batch[i + 1], c_batch[i])

\* Sunday 23:00: the 22:00 hour is in the catalog as an error, so the batch
\* skips it and the weekend and resumes with Friday 21:00 and 20:00
C5_Witness ==
    /\ now = 71
    /\ c_call = <<"next", "EURUSD", 2>> /\ c_since = {}
    /\ \E j \in DOMAIN df : RowKey(df[j]) = Key("EURUSD", SlotOf(70)) /\ df[j].status = "error"
    /\ c_batch = <<SlotOf(21), SlotOf(20)>>

(* -------------------------- properties: run ---------------------------- *)
\* every slot the catalog file records as fetched has the bars aggregated
\* from it in the dataset file of its pair and year
DiskConsistent ==
    \A i \in DOMAIN d_catalog.rows :
        d_catalog.rows[i].status = "fetched" =>
            \A b \in h_bars :
                b.key = RowKey(d_catalog.rows[i]) =>
                    \E j \in DOMAIN parquet[<<b.pair, YearOfMinute(b.timestamp)>>].rows :
                        parquet[<<b.pair, YearOfMinute(b.timestamp)>>].rows[j].timestamp = b.timestamp

\* C1: wherever a run is terminated, the files it leaves are consistent:
\* the bars of every slot the catalog file records as fetched are in the
\* dataset files, so that a later run, which skips those slots, loses no bars
C1_TerminationConsistent == (r_pc = "terminated") => DiskConsistent

(* ----------------------- properties: the storage ----------------------- *)
\* the complete dataset files
Datasets == {k \in DatasetKeys : parquet[k].st = "complete"}
HasBar(file, ts) == \E i \in DOMAIN file.rows : file.rows[i].timestamp = ts
FrameRows(frame) == {frame.rows[i] : i \in DOMAIN frame.rows}

\* every dataset has one row per timestamp, in ascending order
OneRowPerTimestamp ==
    \A k \in Datasets :
        \A i, j \in DOMAIN parquet[k].rows :
            i < j => parquet[k].rows[i].timestamp < parquet[k].rows[j].timestamp

\* C6: write_bars called again with the bars of the call before it leaves
\* the datasets with exactly the rows that call left
C6_Redelivery ==
    [][ ( /\ h_last' # h_last
          /\ h_last.pair # None /\ h_last.exc = "ok"
          /\ h_last'.pair = h_last.pair /\ h_last'.in = h_last.in /\ h_last'.exc = "ok" )
        => h_last'.out = h_last.out ]_vars

FinalPathsComplete ==
    /\ d_catalog.st \in {"absent", "complete"}
    /\ \A k \in DatasetKeys : parquet[k].st \in {"absent", "complete"}
    /\ (w_pc \in {"to_parquet", "rename"}) => (parquet[<<w_pair, Head(w_years)>>] = w_before)
    /\ (w_pc \in {"save_write", "save_rename"}) => (d_catalog = w_before)

\* a final path changes in one step from the prior file to the complete new one
FinalPathSwitches ==
    /\ \A k \in DatasetKeys :
          (parquet'[k] # parquet[k]) =>
              (parquet[k] = w_before /\ parquet'[k] = File(w_combined))
    /\ (d_catalog' # d_catalog) => (d_catalog = w_before /\ d_catalog' = File(df))

C9_FailedWriteCleansUp ==
    (w_pc = "idle" /\ w_exc = "OSError") =>
        /\ ptmp = NoFile
        /\ d_catalog_tmp = NoFile
        /\ d_catalog = w_before \/ \E k \in DatasetKeys : parquet[k] = w_before

\* C10: the hour of the scenario, decoded, aggregated and written as the first
\* call, ends with exactly 2 bars persisted, the minute-10 bar with open
\* 1.1000, high 1.1005, low 1.0995, close 1.0995
C10_PipelineComposes ==
    (w_pc = "idle" /\ w_done = 1 /\ w_in.origin = "scenario" /\ w_exc # "OSError") =>
        /\ w_exc = "ok"
        /\ LET rows == parquet[<<"EURUSD", 2021>>].rows
           IN  /\ Len(rows) = 2
               /\ rows[1].timestamp = 10
               /\ rows[1].open = 110000 /\ rows[1].high = 110050
               /\ rows[1].low = 109950 /\ rows[1].close = 109950

(* ----------------------- properties: the gap check --------------------- *)
\* C11: of two consecutive bars more than 5 minutes apart, a gap is reported
\* exactly when some minute between them is outside the weekend closure
C11_GapOutsideClosure ==
    (q_pc = "done") =>
        \A i \in 2..Len(q_in) :
            (q_in[i] - q_in[i - 1] > 5) =>
                ( (\E k \in DOMAIN q_out : q_out[k].from = q_in[i - 1] /\ q_out[k].to = q_in[i])
                  <=> (\E m \in q_in[i - 1]..q_in[i] : ~is_weekend_closed(m \div 60)) )

(* ------------------------ properties: the run loop --------------------- *)
\* the pairs that still have slots of their batch to fetch
Remaining == {p \in DOMAIN r_pos : r_pos[p] < Len(r_batches[p])}

\* the fetches issued for two pairs with slots left differ by at most 1, and no
\* pair is listed twice in a round
RoundRobinBalanced ==
    /\ \A p, q \in Remaining : r_pos[p] - r_pos[q] <= 1
    /\ \A i, j \in DOMAIN r_round : i # j => r_round[i] # r_round[j]

\* a step of the loop that issues a fetch issues it for the pair whose turn it
\* is, for the next slot of its batch, and for that pair only; a round begins
\* only when the round before it is over, with every active pair in it
RoundRobinStep ==
    /\ (r_pc = "loop" /\ r_pc' # "terminated" /\ r_pos' # r_pos) =>
          /\ r_round # << >>
          /\ r_pos' = [r_pos EXCEPT ![Head(r_round)] = @ + 1]
          /\ r_pc' # "raised" =>
                /\ Key(Head(r_round), r_batches[Head(r_round)][r_pos[Head(r_round)] + 1]) \in index'
                /\ r_fetched' = r_fetched + 1
    /\ (r_pc = "loop" /\ r_pc' = "loop" /\ r_round = << >>) =>
          /\ r_pos' = r_pos
          /\ {r_round'[i] : i \in DOMAIN r_round'} = r_active

\* C12: pairs are served in strict round-robin: one fetch per round for every
\* pair whose batch is not exhausted, so the fetches issued for two pairs with
\* slots left never differ by more than 1, and each pair's slots are fetched in
\* the order of its batch
C12_RoundRobin == []RoundRobinBalanced /\ [][RoundRobinStep]_vars

\* in the middle of a round: one pair is a fetch ahead of the other, both with
\* slots left
C12_Witness ==
    /\ r_pc = "loop" /\ DOMAIN r_pos = {"EURUSD", "GBPUSD"}
    /\ Remaining = {"EURUSD", "GBPUSD"}
    /\ r_pos["GBPUSD"] = 3 /\ r_pos["EURUSD"] = 2

\* a step of the loop that takes a slot from a batch
SlotStep == r_pc = "loop" /\ r_pc' # "terminated" /\ r_pos' # r_pos
\* the slot it takes
SlotKey == Key(Head(r_round), r_batches[Head(r_round)][r_pos[Head(r_round)] + 1])

\* after the step the catalog has one row for the slot, with the status that
\* fetch_hour returned, or "error" when the payload fetched could not be
\* decoded; in that case no bars are buffered and the loop goes on
SlotCatalogued ==
    LET decode_fails == r_last'.status = "fetched" /\ r_last'.data = "corrupt"
    IN  /\ Cardinality({i \in DOMAIN df' : RowKey(df'[i]) = SlotKey}) = 1
        /\ \A i \in DOMAIN df' :
              RowKey(df'[i]) = SlotKey =>
                  df'[i].status = IF decode_fails THEN "error" ELSE r_last'.status
        /\ decode_fails =>
              /\ r_buffers' = r_buffers
              /\ h_bars' = h_bars
              /\ r_pc' \in {"loop", "save"}

\* C13: every slot processed ends with a catalog entry, whatever the outcome
\* of its fetch: the status fetch_hour returned, or "error" when decoding or
\* aggregation of a fetched payload failed, which buffers no bars and does not
\* stop the run
C13_EverySlotCatalogued == [][SlotStep => SlotCatalogued]_vars

\* the same for the slots whose fetch_hour returned
SlotCataloguedOnReturn == [][(SlotStep /\ r_last'.status # "raised") => SlotCatalogued]_vars

\* the bars aggregated for a pair are in its dataset files
PairFlushed(p) ==
    \A b \in h_bars :
        b.pair = p =>
            \E j \in DOMAIN parquet[<<p, YearOfMinute(b.timestamp)>>].rows :
                parquet[<<p, YearOfMinute(b.timestamp)>>].rows[j].timestamp = b.timestamp

\* no pair has more than WRITE_EVERY slots processed since its last flush, and
\* a run that had slots to fetch and completed has flushed every buffer and
\* saved the catalog it holds
CheckpointState ==
    /\ \A p \in DOMAIN r_fsw : r_fsw[p] <= WRITE_EVERY
    /\ (r_pc = "loop" /\ r_round = << >>) => \A p \in DOMAIN r_fsw : r_fsw[p] < WRITE_EVERY
    /\ r_pc = "save" => r_buffers[r_cur] = << >> /\ r_fsw[r_cur] = 0 /\ PairFlushed(r_cur)
    /\ (r_pc = "done" /\ r_fetched > 0) =>
          /\ \A p \in DOMAIN r_buffers : r_buffers[p] = << >> /\ PairFlushed(p)
          /\ d_catalog = File(df)

\* a flush hands the buffered bars to write_bars, which stores them unless the
\* atomic write fails
FlushStores ==
    (r_pc \in {"flush", "final_flush"} /\ r_pc' # "terminated") =>
        /\ w_exc \in {"ok", "OSError"}
        /\ w_exc = "ok" => (r_buffers'[r_cur] = << >> /\ PairFlushed(r_cur))

\* C14: every WRITE_EVERY slots processed for a pair its buffered bars are
\* flushed to the datasets and then the catalog is saved, so no pair has more
\* than WRITE_EVERY slots processed since its last flush; a run that had slots
\* to fetch and completed has flushed every buffer and its catalog file equals
\* the catalog in memory
C14_Checkpoints == []CheckpointState /\ [][FlushStores]_vars

\* the maximum slot count the caller asked for: the configured default only
\* when none is supplied
SuppliedMax == IF r_args.max_hours = << >> THEN MAX_HOURS_PER_RUN ELSE r_args.max_hours[1]

\* the per-pair limits handed to the batch queries
BatchLimits ==
    [i \in DOMAIN r_args.pairs |->
        BatchSize(max_hours_or_default(r_args.max_hours), Len(r_args.pairs), i)]

RunInProgress == r_pc \notin {"idle", "terminated"}

FetchBudget ==
    RunInProgress =>
        /\ r_fetched <= SuppliedMax
        /\ SeqSum(BatchLimits) = SuppliedMax
        /\ \A p \in DOMAIN r_batches : Len(r_batches[p]) <= SuppliedMax

RunEnded == r_pc \in {"done", "raised", "terminated", "idle"}

\* C15: a run terminates, it issues at most max_hours fetches over all pairs
\* for every non-negative max_hours supplied by the caller (the configured
\* default applies only when none is supplied), and the per-pair batch limits
\* sum to exactly that maximum
C15_BoundedRun == []FetchBudget /\ (RunInProgress ~> RunEnded)

\* every run ends
RunTerminates == RunInProgress ~> RunEnded

\* the fetch budget for the calls that supply no maximum or a positive one
FetchBudgetPositive == (r_args.max_hours # <<0>>) => FetchBudget

(* ------------------------ properties: catalog -------------------------- *)
RowsOf(d, key) == {i \in DOMAIN d : RowKey(d[i]) = key}

\* one row per key, and the index holds exactly the keys of the rows
DistinctKeys ==
    /\ \A i, j \in DOMAIN df : RowKey(df[i]) = RowKey(df[j]) => i = j
    /\ index = {RowKey(df[i]) : i \in DOMAIN df}
    /\ c_since \subseteq index

\* the update call of a step: the clock of the catalog advances with each call
UpdateStep == wall' = wall + 1

\* after update(key, status) the key has exactly one row, with that status and
\* the time of the call, and every other row is as it was
Upserted ==
    \E i \in DOMAIN c_batch, status \in Statuses :
        LET key == Key(c_call[2], c_batch[i])
        IN  /\ Cardinality(RowsOf(df', key)) = 1
            /\ \A r \in RowsOf(df', key) :
                  df'[r].status = status /\ df'[r].fetched_at = wall'
            /\ Len(df') = Len(df) + (IF RowsOf(df, key) = {} THEN 1 ELSE 0)
            /\ \A r \in DOMAIN df : RowKey(df[r]) # key => df'[r] = df[r]
            /\ \A r \in DOMAIN df : RowKey(df'[r]) = RowKey(df[r])
            /\ key \in c_since'

\* C16: Catalog.update is an upsert: after any sequence of update calls there
\* is exactly one row per key updated, the row carries the status and the time
\* of the most recent update of its key, and updating the same key again
\* leaves one row with fetched_at advanced
C16_Upsert == []DistinctKeys /\ [][UpdateStep => Upserted]_vars

\* the same slot updated twice: one row, stamped by the second call
C16_Witness ==
    /\ wall = 2
    /\ Len(df) = 1
    /\ df[1].fetched_at = 2
    /\ c_since = {RowKey(df[1])}

(* --------------------- properties: slot status ------------------------- *)
\* the status of a slot in a catalog frame
StatusIn(d, key) ==
    IF RowsOf(d, key) = {} THEN "absent"
    ELSE d[CHOOSE i \in RowsOf(d, key) : TRUE].status

KeysIn(d) == {RowKey(d[i]) : i \in DOMAIN d}

\* a change of status is absent -> fetched/no_data/error, or the re-fetch of
\* an error slot in a run that retries errors
Forward(a, b) ==
    \/ a = b
    \/ a = "absent" /\ b \in Statuses
    \/ a = "error" /\ r_args.retry_errors /\ b \in Statuses

\* the catalog of the run, between its load and the end of the process
MemoryForward ==
    (r_pc # "idle" /\ r_pc' # "terminated" /\ df' # df) =>
        \A key \in KeysIn(df) \cup KeysIn(df') :
            Forward(StatusIn(df, key), StatusIn(df', key))

\* the catalog file
FileForward ==
    (d_catalog' # d_catalog) =>
     \A key \in KeysIn(d_catalog.rows) \cup KeysIn(d_catalog'.rows) :
        Forward(StatusIn(d_catalog.rows, key), StatusIn(d_catalog'.rows, key))

MinuteOf(tk) == tk.timestamp \div 60000
TicksOf(m) == {i \in DOMAIN q_in : MinuteOf(q_in[i]) = m}

\* the bar of a minute summarises the ticks of that minute
BarOfMinute(b) ==
    LET S == TicksOf(b.timestamp)
        order == SortAsc(S)
    IN  /\ S # {}
        /\ b.open = q_in[SetMin(S)].mid
        /\ b.close = q_in[SetMax(S)].mid
        /\ \A i \in S : b.low <= q_in[i].mid /\ q_in[i].mid <= b.high
        /\ \E i \in S : b.high = q_in[i].mid
        /\ \E i \in S : b.low = q_in[i].mid
        /\ b.volume = SeqSum([k \in DOMAIN order |->
                                q_in[order[k]].ask_volume + q_in[order[k]].bid_volume])
        /\ b.low <= Min(b.open, b.close)
        /\ Min(b.open, b.close) <= Max(b.open, b.close)
        /\ Max(b.open, b.close) <= b.high

\* C18: for ticks in chronological order aggregate_ticks returns bars sorted
\* ascending by timestamp, exactly one per minute present in the input, each
\* with open the first mid of its minute, close the last, high the maximum,
\* low the minimum and volume the sum of ask_volume + bid_volume, so that
\* low <= min(open, close) <= max(open, close) <= high; no ticks give a frame
\* of zero bars
C18_Aggregate ==
    q_pc = "done" =>
        /\ q_out.cols = AggCols
        /\ \A k \in 1..(Len(q_out.rows) - 1) :
              q_out.rows[k].timestamp < q_out.rows[k + 1].timestamp
        /\ {q_out.rows[k].timestamp : k \in DOMAIN q_out.rows} = {MinuteOf(q_in[i]) : i \in DOMAIN q_in}
        /\ \A k \in DOMAIN q_out.rows : BarOfMinute(q_out.rows[k])
        /\ q_in = << >> => q_out.rows = << >>

\* three ticks, two of them in minute 0 with the mid falling: two bars, the
\* first with open = high above close = low
C18_Witness ==
    /\ q_pc = "done" /\ Len(q_in) = 3
    /\ Len(q_out.rows) = 2
    /\ q_out.rows[1].timestamp = 0 /\ q_out.rows[2].timestamp = 2
    /\ q_out.rows[1].open = 110050 /\ q_out.rows[1].close = 109950
    /\ q_out.rows[1].high = 110050 /\ q_out.rows[1].low = 109950
    /\ q_out.rows[1].volume = 5

(* ----------------------- properties: error batch ----------------------- *)
\* the slots of the pair that are in error
ErrorSlots(pair) == {RowSlot(df[i]) : i \in {j \in DOMAIN df : df[j].pair = pair /\ df[j].status = "error"}}

\* C19: get_error_batch(pair, n) returns at most n slots, each in error for
\* that pair, strictly descending by (year, month, day, hour); it returns all
\* the error slots of the pair when there are at most n, and else the n most
\* recent
C19_ErrorBatch ==
    (c_call[1] = "error" /\ c_since = {}) =>
        LET pair == c_call[2]
            n == c_call[3]
            got == {c_batch[i] : i \in DOMAIN c_batch}
        IN  /\ Len(c_batch) = Min(n, Cardinality(ErrorSlots(pair)))
            /\ got \subseteq ErrorSlots(pair)
            /\ \A i \in DOMAIN c_batch : get_status(df, index, Key(pair, c_batch[i])) = "error"
            /\ \A i \in 1..(Len(c_batch) - 1) : SlotLess(c_batch[i + 1], c_batch[i])
            /\ \A sl \in ErrorSlots(pair) \ got : \A i \in DOMAIN c_batch : SlotLess(sl, c_batch[i])

\* two EURUSD slots in error and one asked for: the more recent one is returned
C19_Witness ==
    /\ c_call = <<"error", "EURUSD", 1>> /\ c_since = {}
    /\ Cardinality(ErrorSlots("EURUSD")) = 2
    /\ Len(c_batch) = 1
    /\ \A sl \in ErrorSlots("EURUSD") : sl = c_batch[1] \/ SlotLess(sl, c_batch[1])

(* ---------------------- properties: weekend closure -------------------- *)
\* the day of the week of a minute count: day 0, 2021-01-01, is a Friday
IsFriday(minute) == (minute \div 1440) % 7 = 0
IsSaturday(minute) == (minute \div 1440) % 7 = 1
IsSunday(minute) == (minute \div 1440) % 7 = 2
\* minutes of the day at 22:00
TenPM == 22 * 60

ClosedExpected(minute) ==
    \/ IsSaturday(minute)
    \/ IsSunday(minute) /\ minute % 1440 < TenPM
    \/ IsFriday(minute) /\ minute % 1440 >= TenPM

\* Sunday 2021-01-03 21:00 and 22:00, Friday 2021-01-08 21:59 and 22:00
ClosedCases ==
    /\ q_in = 2 * 1440 + 21 * 60 => q_out[1]
    /\ q_in = 2 * 1440 + 22 * 60 => ~q_out[1]
    /\ q_in = 7 * 1440 + 21 * 60 + 59 => ~q_out[1]
    /\ q_in = 7 * 1440 + 22 * 60 => q_out[1]

\* C20: isClosed(t) is true exactly on a Saturday, on a Sunday before 22:00
\* and on a Friday at or after 22:00 (UTC): Sunday 21:00 closed, Sunday 22:00
\* open, Friday 21:59 open, Friday 22:00 closed; the catalog and the validator
\* evaluate the same function
C20_IsClosed ==
    q_pc = "done" =>
        /\ q_out[1] = ClosedExpected(q_in)
        /\ q_out[2] = q_out[1]
        /\ ClosedCases

\* Friday 2021-01-08 22:00 has been evaluated as closed by both
C20_Witness ==
    /\ q_pc = "done"
    /\ q_in = 7 * 1440 + 22 * 60
    /\ q_out = <<TRUE, TRUE>>

(* ------------------------ properties: parse_ticks ---------------------- *)
\* C21: for a decompressed payload of length L parse_ticks returns L div 20
\* ticks in record order, the i-th with timestamp hour_start + the i-th
\* record's millisecond offset; trailing bytes short of a record are ignored
\* without raising, and a corrupt compressed stream raises a decode error
\* instead of yielding ticks
C21_ParseTicks ==
    q_pc = "done" =>
        IF Corrupt(q_in.body)
        THEN q_out.exc = "LZMAError" /\ q_out.ticks = << >>
        ELSE /\ q_out.exc = None
             /\ Len(q_out.ticks) = DecompressedLen(q_in.body) \div TICK_STRUCT_SIZE
             /\ \A i \in DOMAIN q_out.ticks :
                   /\ q_out.ticks[i].timestamp = 3600000 * q_in.t + Records(q_in.body)[i].ts_ms
                   /\ q_out.ticks[i].ask = Records(q_in.body)[i].ask_int
                   /\ q_out.ticks[i].bid = Records(q_in.body)[i].bid_int

\* a stream of one record and 7 more bytes, parsed for hour 25: one tick
C21_Witness ==
    /\ q_pc = "done"
    /\ q_in.body = "truncated" /\ q_in.t = 25
    /\ DecompressedLen(q_in.body) = 27
    /\ q_out.exc = None /\ Len(q_out.ticks) = 1
    /\ q_out.ticks[1].timestamp = 25 * 3600000

(* ------------------- properties: fetch_hour, no data ------------------- *)
\* the request of this step was answered 404, or 200 with an empty body
AbsentAnswer == f_requests' = f_requests + 1 /\ f_last' \in {"404", EmptyBody}

\* the call returns ("no_data", None) at once: no sleep, no other attempt, no
\* change to the raw archive
NoDataAtOnce ==
    /\ f_pc' = "done" /\ f_status' = "no_data" /\ f_data' = None
    /\ f_sleeps' = f_sleeps
    /\ f_attempt' = f_attempt
    /\ raw' = raw

\* a call that has returned makes no request and sleeps no more
ReturnedIsFinal == f_pc = "done" => (f_requests' = f_requests /\ f_sleeps' = f_sleeps /\ raw' = raw)

\* C22: in fetch_hour a 404 response and a successful response with an empty
\* body both yield ("no_data", None) immediately: no further attempt is made,
\* no backoff sleep occurs and nothing is written to the raw archive
C22_NoDataImmediate == [][(AbsentAnswer => NoDataAtOnce) /\ ReturnedIsFinal]_vars

\* one transient failure, then an empty body: "no_data" after two requests
\* and the one backoff sleep of the failure, the raw file still absent
C22_Witness ==
    /\ f_pc = "done" /\ f_status = "no_data" /\ f_data = None
    /\ f_last = EmptyBody
    /\ f_requests = 2 /\ f_nTransient = 1
    /\ f_sleeps = <<RETRY_DELAY_SECONDS>>
    /\ raw[f_slot] = Absent

(* ------------------ properties: fetch_hour, termination ---------------- *)
RequestBudget == f_requests <= MAX_RETRIES /\ f_attempt <= MAX_RETRIES

\* a call whose last request failed (429, exception, HTTP error) and that has
\* returned used every attempt and returned ("error", None)
ExhaustedReturnsError ==
    (f_pc = "done" /\ f_last \in {"429", "exception", "http_error"}) =>
        /\ f_requests = MAX_RETRIES
        /\ f_status = "error" /\ f_data = None

\* a sleep of the exponential backoff is followed by another attempt
BackoffBetweenAttempts ==
    (Len(f_sleeps') = Len(f_sleeps) + 1 /\ f_last' # "429") =>
        /\ f_sleeps'[Len(f_sleeps')] = RETRY_DELAY_SECONDS * (2 ^ (f_attempt - 1))
        /\ f_attempt < MAX_RETRIES
        /\ f_pc' = "request" /\ f_attempt' = f_attempt + 1

\* the final failed attempt is followed by no sleep of the exponential backoff
NoBackoffAtTheEnd ==
    (f_pc = "request" /\ f_pc' = "done" /\ f_status' = "error" /\ f_last' # "429") =>
        f_sleeps' = f_sleeps

FetchReturned == f_pc \in {"done", "raised"}

\* C28: fetch_hour terminates after at most MAX_RETRIES requests whatever the
\* server answers, a server that answers 429 to every request included; it
\* sleeps the exponential backoff only between attempts, never after the final
\* failed attempt, and then returns "error"
C28_FetchTerminates ==
    /\ [](RequestBudget /\ ExhaustedReturnsError)
    /\ [][BackoffBetweenAttempts /\ NoBackoffAtTheEnd]_vars
    /\ <>FetchReturned

\* a server that answered 429 to every request: three requests, "error"
C28_Witness ==
    /\ f_pc = "done" /\ f_status = "error"
    /\ f_requests = MAX_RETRIES /\ f_n429 = MAX_RETRIES
    /\ f_sleeps = <<RATE_LIMIT_BACKOFF_SECONDS, RATE_LIMIT_BACKOFF_SECONDS, RATE_LIMIT_BACKOFF_SECONDS>>

\* three transient failures: two backoff sleeps, none after the last attempt
C28_WitnessTransient ==
    /\ f_pc = "done" /\ f_status = "error" /\ f_nTransient = MAX_RETRIES
    /\ f_sleeps = <<RETRY_DELAY_SECONDS, 2 * RETRY_DELAY_SECONDS>>

(* -------------------- properties: backfill progress -------------------- *)
\* with the clock fixed and no update since get_next_batch(pair, n) returned,
\* the same call returns the same batch
Repeatable ==
    (c_call[1] = "next" /\ c_since = {}) =>
        get_next_batch(index, c_call[2], c_call[3], now) = c_batch

\* every slot of the batch handed out has been recorded with update
BatchRecorded ==
    /\ c_call[1] = "next" /\ c_batch # << >>
    /\ \A i \in DOMAIN c_batch : Key(c_call[2], c_batch[i]) \in c_since

\* this step is the next get_next_batch call for the same pair
NextCallSamePair ==
    /\ c_call'[1] = "next" /\ c_call'[2] = c_call[2]
    /\ c_since' = {} /\ c_since # {}

\* the new batch shares no slot with the recorded one and holds only slots
\* older than every slot of it
OlderBatch ==
    \A i \in DOMAIN c_batch' : \A j \in DOMAIN c_batch :
        c_batch'[i] # c_batch[j] /\ SlotLess(c_batch'[i], c_batch[j])

\* C23: with the clock held fixed, get_next_batch(pair, n) called twice with
\* no update in between returns the same batch, and once every slot of a
\* returned batch has been recorded with update (any status) the next
\* get_next_batch for the pair is disjoint from it and holds only slots
\* strictly older than every slot of it
C23_BackfillProgress ==
    []Repeatable /\ [][(BatchRecorded /\ NextCallSamePair) => OlderBatch]_vars

\* two EURUSD slots handed out and recorded, then the next batch of two: four
\* distinct hours, the new ones older than the recorded ones
C23_Witness ==
    /\ c_call = <<"next", "EURUSD", 2>> /\ c_since = {}
    /\ wall = 2 /\ Len(df) = 2 /\ Len(c_batch) = 2
    /\ \A i \in DOMAIN df : df[i].pair = "EURUSD"
    /\ \A i \in DOMAIN df : \A j \in DOMAIN c_batch : SlotLess(c_batch[j], RowSlot(df[i]))

(* ----------------------- properties: rate limit ------------------------ *)
\* this step calls fetch_hour for the next slot of a pair
FetchIssued == r_pc = "loop" /\ r_pos' # r_pos

\* the slots fetch_hour was called for so far
Issued == UNION {{Key(p, r_batches[p][i]) : i \in 1..r_pos[p]} : p \in DOMAIN r_pos}

\* every fetch made so far has returned, was recorded in the catalog and was
\* followed by a sleep of the request delay
FetchesSettled ==
    /\ r_sleeps = r_fetched
    /\ Cardinality(Issued) = r_fetched
    /\ Issued \subseteq index
    /\ \A key \in Issued : RowsOf(df, key) # {}

\* C24: between two consecutive fetch calls of the run there is a sleep of the
\* request delay, and at most one fetch is in flight: a fetch is issued only
\* when every earlier fetch has returned and its slot is in the catalog
C24_OneFetchAtATime == [][FetchIssued => FetchesSettled]_vars

\* the second fetch of a run for two pairs has been made: one sleep lies
\* between the two fetches, one follows the second
C24_Witness ==
    /\ r_pc = "loop" /\ r_fetched = 2 /\ r_sleeps = 2
    /\ Len(r_args.pairs) = 2
    /\ Cardinality(Issued) = 2 /\ Issued \subseteq index

(* ------------------------ properties: empty writes --------------------- *)
\* this step is a call of write_bars with a frame of zero bars
ZeroBarWrite ==
    /\ w_pc = "idle" /\ w_done' = w_done + 1
    /\ Len(w_in'.frame.rows) = 0

\* this step is a call of _flush_pair for an empty buffer
EmptyFlush == q_pc' = "flushed" /\ q_in' = << >> /\ <<q_pc, q_in>> # <<q_pc', q_in'>>

\* no dataset file and no temporary file is created or changed
DiskUntouched == parquet' = parquet /\ ptmp' = ptmp /\ d_catalog' = d_catalog /\ d_catalog_tmp' = d_catalog_tmp

\* C25: write_bars called with zero new bars is a no-op: no dataset file and
\* no temporary file is created or modified; flushing a pair whose buffer is
\* empty performs no storage write
C25_EmptyWriteNoOp ==
    [][ /\ ZeroBarWrite => (DiskUntouched /\ w_exc' = "ok" /\ w_pc' = "idle")
        /\ EmptyFlush => (DiskUntouched /\ w_done' = w_done /\ w_pc' = "idle" /\ q_out' = 0)
      ]_vars

\* after a write that stored a bar, a write of zero bars and a flush of an
\* empty buffer: the dataset is the one the first write left
C25_Witness ==
    /\ w_done = 2 /\ w_pc = "idle" /\ w_exc = "ok"
    /\ Len(w_in.frame.rows) = 0
    /\ q_pc = "flushed" /\ q_in = << >> /\ q_out = 0
    /\ parquet[<<"EURUSD", 2021>>].st = "complete"
    /\ h_last.out = parquet
    /\ ptmp = NoFile

(* ----------------------- properties: dedup tie-break ------------------- *)
RowSet(file) == {file.rows[i] : i \in DOMAIN file.rows}

\* a bar that is persisted stays as it is: same values, knowledge_time, bar_hash
PersistedKept == \A k \in Datasets : RowSet(parquet[k]) \subseteq RowSet(parquet'[k])

\* a dataset written holds, for every timestamp it already had, the row it had
KeepsFirst ==
    \A k \in Datasets :
        \A r \in RowSet(parquet[k]) :
            HasBar(parquet'[k], r.timestamp) =>
                \E i \in DOMAIN parquet'[k].rows : parquet'[k].rows[i] = r

\* C26: deduplication keeps the first occurrence, with the persisted rows
\* placed before the new ones: when a bar passed to write_bars has the
\* timestamp of a persisted bar, the persisted bar stays, with its values,
\* knowledge_time and bar_hash, and the new bar is discarded
C26_PersistedWins == [][KeepsFirst /\ PersistedKept]_vars

(* --------------------- properties: valid bars survive ------------------ *)
\* the bars offered to the write of one year: those persisted and the new ones
Offered(k) == RowSet(parquet[k]) \cup {w_new[i] : i \in {j \in DOMAIN w_new : YearOfMinute(w_new[j].timestamp) = k[2]}}

\* this step renames the merged file of dataset k over its final path
Written(k) == w_pc = "rename" /\ k = <<w_pair, Head(w_years)>> /\ parquet'[k] # parquet[k]

\* C27: write_bars deduplicates before it validates, yet no valid bar is lost
\* to an invalid one: when the bars offered for a timestamp, persisted and
\* new, include a bar that satisfies the bar invariants, the dataset holds a
\* bar for that timestamp after the write
C27_ValidBarSurvives ==
    [][ \A k \in DatasetKeys :
            Written(k) =>
                \A r \in Offered(k) : ~bad_bar(r) => HasBar(parquet'[k], r.timestamp) ]_vars

(* ------------------- properties: index and row table ------------------- *)
\* the keys asked about: both pairs, every hour up to the latest clock reading
ProbeKeys == {Key(p, SlotOf(t)) : p \in PairSet, t \in 0..73}

\* has_entry(k) iff exactly one row has key k; get_status(k) is that row's
\* status, and None when there is no entry
IndexAgrees ==
    \A k \in ProbeKeys \cup index \cup KeysIn(df) :
        /\ has_entry(index, k) <=> Cardinality(RowsOf(df, k)) = 1
        /\ get_status(df, index, k) =
              IF has_entry(index, k) THEN df[CHOOSE i \in RowsOf(df, k) : TRUE].status ELSE None

\* status and fetched_at of the rows of a key
RowInfo(d, k) == {<<d[i].status, d[i].fetched_at>> : i \in RowsOf(d, k)}

\* an update changes status and fetched_at for one key only
OneKeyTouched ==
    Cardinality({k \in KeysIn(df) \cup KeysIn(df') : RowInfo(df, k) # RowInfo(df', k)}) = 1

\* C29: after any sequence of update calls the key index and the row table
\* agree: has_entry(k) holds iff exactly one row has key k, get_status(k) is
\* that row's status when has_entry(k) and None otherwise; an update for one
\* key changes neither the status nor the fetched_at of another key
C29_IndexAgrees == []IndexAgrees /\ [][UpdateStep => OneKeyTouched]_vars

\* two slots updated one after the other: the first row keeps its status and
\* its fetched_at
C29_Witness ==
    /\ wall = 2 /\ Len(df) = 2
    /\ df[1].status = "fetched" /\ df[1].fetched_at = 1
    /\ df[2].status = "error" /\ df[2].fetched_at = 2
    /\ get_status(df, index, RowKey(df[1])) = "fetched"

(* ------------------------ properties: year datasets -------------------- *)
\* every persisted bar is in the dataset of the year of its timestamp
OwnYear ==
    \A k \in Datasets :
        \A i \in DOMAIN parquet[k].rows : YearOfMinute(parquet[k].rows[i].timestamp) = k[2]

\* the datasets a write of the bars held in w_new may change
Touched == {<<w_pair, YearOfMinute(w_new[i].timestamp)>> : i \in DOMAIN w_new}

\* a step of write_bars changes only the datasets of its pair and of the
\* years of its bars
WriteFrame ==
    \A k \in DatasetKeys : parquet'[k] # parquet[k] => (w_pc # "idle" /\ k \in Touched)

\* a call that has ended differs from the call before it only in those datasets
CallFrame ==
    (h_last' # h_last /\ h_last'.pair # None) =>
        \A k \in DatasetKeys :
            h_last'.out[k] # h_last.out[k] =>
                /\ k[1] = h_last'.pair
                /\ \E r \in FrameRows(h_last'.in) : YearOfMinute(r.timestamp) = k[2]

\* C30: write_bars(pair, bars) modifies only the datasets (pair, y) for the
\* years y of the timestamps in bars; the datasets of other years and other
\* pairs are left unchanged, and after any sequence of writes every persisted
\* bar is in the dataset of the year of its timestamp
C30_YearFrame == []OwnYear /\ [][WriteFrame /\ CallFrame]_vars

\* a write of one bar of 2022 after a write of a bar of 2021: the dataset of
\* 2021 is as the first write left it, the dataset of 2022 holds the new bar
C30_Witness ==
    /\ w_done = 2 /\ w_pc = "idle" /\ w_exc = "ok"
    /\ Len(w_in.frame.rows) = 1 /\ w_in.frame.rows[1].timestamp = 525600
    /\ Len(parquet[<<"EURUSD", 2021>>].rows) = 1
    /\ parquet[<<"EURUSD", 2021>>].rows[1].knowledge_time = 1
    /\ Len(parquet[<<"EURUSD", 2022>>].rows) = 1
    /\ parquet[<<"EURUSD", 2022>>].rows[1].knowledge_time = 2
    /\ parquet[<<"GBPUSD", 2021>>] = NoFile

(* ---------------------- properties: failed flush ----------------------- *)
\* write_bars has raised in the flush of a checkpoint or of the end of the run
FlushRaised ==
    /\ r_pc \in {"flush", "final_flush"} /\ w_pc = "idle" /\ w_exc # "ok"
    /\ r_pc' # "terminated"

CatalogFileKept == d_catalog' = d_catalog /\ d_catalog_tmp' = d_catalog_tmp

\* the run ends with the exception, Catalog.save is not called
StopsBeforeSave == r_pc' = "raised" /\ w_pc' = "idle" /\ w_done' = w_done /\ CatalogFileKept

\* a run that has raised does nothing more
RaisedIsFinal == r_pc = "raised" => (r_pc' \in {"raised", "terminated"} /\ CatalogFileKept)

\* the catalog file changes only in the rename of a Catalog.save
OnlySavesWrite ==
    d_catalog' # d_catalog => (r_pc \in {"save", "final_save"} /\ w_pc = "save_rename")

\* C31: when the storage write raises in a periodic or final flush the run
\* stops with that exception before Catalog.save is called for the checkpoint:
\* the catalog file stays as the last successful save left it and records no
\* slot processed since
C31_FailedFlushKeepsCatalog ==
    [][(FlushRaised => StopsBeforeSave) /\ RaisedIsFinal /\ OnlySavesWrite]_vars

\* a run of two pairs saved its catalog at a checkpoint of one pair, then the
\* flush of the other pair raised: the file holds the rows of that save, fewer
\* than the catalog in memory
C31_Witness ==
    /\ r_pc = "raised" /\ w_exc = "KeyError"
    /\ r_last.status = "fetched" \/ r_fetched > 1
    /\ d_catalog.st = "complete"
    /\ Len(d_catalog.rows) >= WRITE_EVERY
    /\ Len(d_catalog.rows) < Len(df)
    /\ \E i \in DOMAIN df : RowsOf(d_catalog.rows, RowKey(df[i])) = {}
=============================================================================
